---- MODULE Spec2Model ----
(***************************************************************************)
(* A model of the serial command channel of py-vault-serial-wrapper:       *)
(*   - Uploader (REPLace.py): the polling channel and the upload job,      *)
(*   - TaEspClient (esp_wifi_serial.py): the polling receive,              *)
(*   - SerialConnectionWrapper (serial_connection_wrapper.py): the         *)
(*     streaming channel with its receive worker thread.                   *)
(* Text is a sequence of one-character tokens: "a" a printable character,  *)
(* "SP" a blank, "CR" and "LF" the line ends, "X" a byte that is not valid *)
(* UTF-8, and "?" the replacement character a lossy decode puts for it.    *)
(* The device sends the bytes of Bytes.                                    *)
(***************************************************************************)
EXTENDS Integers, Sequences, FiniteSets, TLC

VARIABLES
    impl,           \* the class the channel object is an instance of
    connection,     \* self.connection: "None", or the port object "open"/"closed"
    rbuffer,        \* self.rbuffer
    dry_run,        \* Uploader.dry_run
    bytes_sent,     \* Uploader.bytes_sent
    pc,             \* position of the caller's thread
    recv_ret,       \* the method the running recv() returns into
    reads,          \* reads done by the running recv() call
    received,       \* history: every byte the transport has delivered, in order
    surfaced,       \* history: every line logged, returned or emitted, in order
    calls,          \* history: number of calls the client has made
    lifecycle,      \* history: "Connected" after a connect that succeeded, else
                    \* "Disconnected" (before connect, after a failed connect,
                    \* after disconnect)
    result,         \* the caller's last call: [op, out, wrote, counted, pre]
    connected_flag, \* SerialConnectionWrapper.connected_flag
    stop_signal,    \* SerialConnectionWrapper.stop_signal
    recv_thread,    \* SerialConnectionWrapper.recv_thread: a worker or NoThread
    wpc,            \* position of each receive worker thread
    wlines,         \* per worker: the lines of its chunk not yet emitted
    cb_target,      \* per worker: the thread its callback's disconnect() joins
    send_lock,      \* holder of send_lock, or NoThread
    recv_lock,      \* holder of recv_lock, or NoThread
    cb_result,      \* the last disconnect() an observer callback made since
                    \* the last connect(): [op, out]
    cb_idx,         \* per worker: the slot PySignal.emit is calling (0: none)
    got,            \* history: per observer, the recv_data events it was called with
    cb_raised,      \* history: the first time an observer raised: [slot, event]
    read_errors,    \* history: per worker, [raised: a read of it raised,
                    \* reported: the error events it emitted]
    excludes,       \* Uploader.excludes
    includes,       \* Uploader.includes
    job,            \* position of upload(); "off" when no upload() was called
    walk,           \* os.walk: the directories still to visit, next first
    cur,            \* the directory os.walk has yielded (root of the loop body)
    mk_left,        \* _create_directory calls left in the loop at line 393
    todo_files,     \* filtered_files not yet uploaded
    fstep,          \* position of _upload_file for the first of todo_files
    chunks,         \* blocks of the prepared file not yet read
    sent,           \* history: the writes made on the transport: [op, path, data, ok,
                    \* settled, drained]
    uploads,        \* history: the remote paths _upload_file was called with
    temp_files,     \* the smash_* files in temp_dir, by the name after smash_
    files_uploaded, \* Uploader.files_uploaded
    dirs_created,   \* Uploader.dirs_created
    upload_ret,     \* what upload() returns: "none" until decided
    dec_in,         \* the response lines handed to a decoder of TaEspClient
    dec_out,        \* what the decoder did with them: [fn, kind, val]
    slots,          \* PySignal.slots: the connected callbacks, in order
    emit_i,         \* the list iterator of the running emit: the position it
                    \* reads next, 0 when no emit runs
    delivered,      \* history: the calls the last emit made, by callback
    stayed,         \* history: the callbacks connected when the last emit began
                    \* and not disconnected while it ran
    emits,          \* history: number of emits begun
    recv_end,       \* history: how the read loop of a polling receive that is
                    \* looked at on its own ended: [cause, reads]
    wait_pc,        \* position of TaEspClient.connect around its wait loop
    wait_text,      \* history: the text received since b.connect() was sent
    wait_data,      \* `data` of connect: the lines of the latest receive
    wait_time,      \* time.time() - start_time, in sleeps of the loop
    smash_level,    \* Uploader.smash_level
    smash_src,      \* the lines of the file handed to _smash_file
    smashed,        \* the outputs of _smash_file run on it and again on its
                    \* output, in order
    class_slots,    \* the slots of the PySignal objects of the class
                    \* SerialConnectionWrapper, by signal name: the instances
                    \* whose observer is connected, in order
    heard           \* history: [observer, from, signal]: the observer connected
                    \* through instance `observer` was called with an event of
                    \* instance `from`

chanVars == <<impl, connection, rbuffer, dry_run, bytes_sent, pc, recv_ret,
              reads, received, surfaced, calls, lifecycle, result>>

\* the observers of recv_data
obsVars == <<cb_idx, got, cb_raised>>

wrapVars == <<connected_flag, stop_signal, recv_thread, wpc, wlines, cb_target,
              send_lock, recv_lock, cb_result, obsVars, read_errors>>

jobVars == <<excludes, includes, job, walk, cur, mk_left, todo_files, fstep, chunks,
             sent, uploads, temp_files, files_uploaded, dirs_created, upload_ret>>

\* a response and its decoding
decVars == <<dec_in, dec_out>>

\* a PySignal and the emit that runs on it
sigVars == <<slots, emit_i, delivered, stayed, emits>>

\* the parts that are checked on their own
\* the wait of TaEspClient.connect for the device's completion marker
waitVars == <<wait_pc, wait_text, wait_data, wait_time>>

\* a file that is smashed, and smashed again
smashVars == <<smash_level, smash_src, smashed>>

\* the signals of the class and what the observers of its instances heard
instVars == <<class_slots, heard>>

unitVars == <<decVars, sigVars, recv_end, waitVars, smashVars, instVars>>

vars == <<chanVars, wrapVars, jobVars, unitVars>>

\* fixed by the constructor
cfgVars == <<impl, dry_run>>
\* the receive buffer and the histories of the data path
bufVars == <<rbuffer, received, surfaced>>
\* the position of a polling receive
recvVars == <<recv_ret, reads>>
\* what only the polling channels use
pollVars == <<rbuffer, bytes_sent, recvVars>>

(***************************************************************************)
(* Bounds of the model.                                                    *)
(***************************************************************************)
MaxChunk  == 2      \* longest chunk one read returns
MaxStream == 3      \* bytes the device sends to a polling channel
MaxWorkerStream == 2 \* bytes the device sends to a streaming channel
MaxReads  == 2      \* reads that fit before a polling receive's deadline
MaxCalls  == 3      \* calls the client makes in one behaviour
MaxWorkers == 2     \* receive worker threads started in one behaviour
NumObservers == 2   \* slots connected to recv_data

\* REPLace.py:38 is 100000; scaled down with the chunk size so that an
\* overflow fits the bounds.
MAX_BUFFER == 2

(***************************************************************************)
(* Text helpers (Python str operations).                                   *)
(***************************************************************************)
Bytes == {"a", "CR", "LF", "X"}
Whitespace == {"SP", "CR", "LF"}

Chunks == UNION {[1..n -> Bytes] : n \in 1..MaxChunk}

\* bytes.decode('utf-8', errors='replace')
DecodeReplace(data) == [i \in 1..Len(data) |-> IF data[i] = "X" THEN "?" ELSE data[i]]

\* bytes.decode('utf-8') raises UnicodeDecodeError on an invalid byte
DecodeStrictRaises(data) == \E i \in 1..Len(data) : data[i] = "X"

\* str.replace(c, '')
Remove(s, c) == SelectSeq(s, LAMBDA x : x # c)

\* str.index / str.find, 0 when absent
IndexOf(s, c) ==
    IF \E i \in 1..Len(s) : s[i] = c
    THEN CHOOSE i \in 1..Len(s) : s[i] = c /\ \A j \in 1..(i - 1) : s[j] # c
    ELSE 0

\* str.split(sep)
RECURSIVE Split(_, _)
Split(s, sep) ==
    LET i == IndexOf(s, sep)
    IN  IF i = 0 THEN <<s>>
        ELSE <<SubSeq(s, 1, i - 1)>> \o Split(SubSeq(s, i + 1, Len(s)), sep)

\* str.rstrip(chars) and str.lstrip(chars)
RECURSIVE RStripSet(_, _)
RStripSet(s, cs) ==
    IF s # <<>> /\ s[Len(s)] \in cs THEN RStripSet(SubSeq(s, 1, Len(s) - 1), cs) ELSE s

RECURSIVE LStripSet(_, _)
LStripSet(s, cs) ==
    IF s # <<>> /\ s[1] \in cs THEN LStripSet(Tail(s), cs) ELSE s

StripSet(s, cs) == LStripSet(RStripSet(s, cs), cs)

\* str.strip() and str.rstrip() without argument strip whitespace
Strip(s) == StripSet(s, Whitespace)
RStrip(s) == RStripSet(s, Whitespace)

\* s[-n:]
LastN(s, n) == IF Len(s) <= n THEN s ELSE SubSeq(s, Len(s) - n + 1, Len(s))

\* the lines that `if line.strip():` lets through
NonBlank(lines) == SelectSeq(lines, LAMBDA l : Strip(l) # <<>>)

(***************************************************************************)
(* The transport (pyserial): what a call on the port object can do.        *)
(***************************************************************************)
ExcKinds == {"SerialException", "Other"}

\* an except clause for `handler` catches an exception of kind `exc`
Catches(handler, exc) == handler = "Exception" \/ handler = exc

(***************************************************************************)
(* Uploader.recv (REPLace.py:180-222), in the steps of its read loop.      *)
(***************************************************************************)
\* REPLace.py:209-212: cut the complete lines off the buffer
RECURSIVE ExtractLines(_)
ExtractLines(buf) ==
    LET idx == IndexOf(buf, "LF")
    IN  IF idx = 0 THEN [lines |-> <<>>, rest |-> buf]
        ELSE LET r == ExtractLines(SubSeq(buf, idx + 1, Len(buf)))
             IN  [lines |-> <<SubSeq(buf, 1, idx - 1)>> \o r.lines, rest |-> r.rest]

\* REPLace.py:222 with the slice taken from the front: the oldest
\* MAX_BUFFER characters
TruncateOldest(buf) == IF Len(buf) > MAX_BUFFER THEN SubSeq(buf, 1, MAX_BUFFER) ELSE buf

\* REPLace.py:220-222
Truncate(buf) == IF Len(buf) > MAX_BUFFER THEN LastN(buf, MAX_BUFFER) ELSE buf

\* REPLace.py:205-222: what recv does with the buffer after its read loop;
\* logged are the non-blank lines and, with done, the non-blank rest
RecvProcess(buf, done) ==
    LET f == ExtractLines(Remove(buf, "CR"))
    IN  [lines   |-> NonBlank(f.lines),
         rest    |-> IF done /\ Strip(f.rest) # <<>> THEN <<f.rest>> ELSE <<>>,
         rbuffer |-> Truncate(f.rest)]

\* entries of the history `surfaced`: a framed line, or the unterminated rest
\* that recv(done=True) logs; op is the call that surfaced it
Entries(texts, kind, op) ==
    [i \in 1..Len(texts) |-> [text |-> texts[i], kind |-> kind, op |-> op]]

(***************************************************************************)
(* Uploader as a channel (REPLace.py): _connect, send, recv, _disconnect   *)
(* called by a client on the caller's thread.                              *)
(***************************************************************************)
IsUploader == impl = "Uploader"

\* the command texts a client sends (send's default is the empty line)
SendLines == {<<>>, <<"a">>}

\* REPLace.py:172: cmd = line + '\r'
Cmd(line) == line \o <<"CR">>

\* REPLace.py:177: send's except clause
SendHandler == "SerialException"

\* an except clause for serial.SerialException only
SerialOnlyHandler == "SerialException"

\* REPLace.py:155: _disconnect's except clause
UDisconnectHandler == "Exception"

\* the record of a call: its outcome, the bytes it put on the transport, the
\* bytes it added to bytes_sent, and the lifecycle state it was made in
Done(op, out, wrote, counted) ==
    [op |-> op, out |-> out, wrote |-> wrote, counted |-> counted, pre |-> lifecycle]

\* the client starts a call on the channel (no upload() drives it)
Call == job = "off" /\ pc = "idle" /\ calls < MaxCalls /\ calls' = calls + 1

\* REPLace.py:123-125
UConnectDry ==
    /\ IsUploader /\ Call /\ dry_run
    /\ result' = Done("connect", "ok", 0, 0)
    /\ UNCHANGED <<connection, bufVars, bytes_sent, pc, recvVars, lifecycle>>
    /\ UNCHANGED <<unitVars, cfgVars, wrapVars, jobVars>>

\* REPLace.py:129-136, 144-145: serial.Serial(...) raises
UConnectOpenFails ==
    /\ IsUploader /\ Call /\ ~dry_run
    /\ result' = Done("connect", "ConnectFailed", 0, 0)
    /\ lifecycle' = "Disconnected"
    /\ UNCHANGED <<connection, bufVars, bytes_sent, pc, recvVars>>
    /\ UNCHANGED <<unitVars, cfgVars, wrapVars, jobVars>>

\* REPLace.py:129-140, 144-145: the port opens, flush() or write() raises
UConnectInitFails ==
    /\ IsUploader /\ Call /\ ~dry_run
    /\ connection' = "open"
    /\ result' = Done("connect", "ConnectFailed", 0, 0)
    /\ lifecycle' = "Disconnected"
    /\ UNCHANGED <<bufVars, bytes_sent, pc, recvVars>>
    /\ UNCHANGED <<unitVars, cfgVars, wrapVars, jobVars>>

\* REPLace.py:129-141: the port opens, Ctrl-C Ctrl-C is written, recv(done=True)
UConnectOk ==
    /\ IsUploader /\ Call /\ ~dry_run
    /\ connection' = "open"
    /\ pc' = "recv" /\ recv_ret' = "connect"
    /\ result' = Done("connect", "running", 2, 0)
    /\ UNCHANGED <<bufVars, bytes_sent, reads, lifecycle>>
    /\ UNCHANGED <<unitVars, cfgVars, wrapVars, jobVars>>

\* REPLace.py:164-166
USendDry ==
    /\ IsUploader /\ Call /\ dry_run
    /\ result' = Done("send", "dry", 0, 0)
    /\ UNCHANGED <<connection, bufVars, bytes_sent, pc, recvVars, lifecycle>>
    /\ UNCHANGED <<unitVars, cfgVars, wrapVars, jobVars>>

\* REPLace.py:168-169
USendNotConnected ==
    /\ IsUploader /\ Call /\ ~dry_run
    /\ connection = "None"
    /\ result' = Done("send", "NotConnected", 0, 0)
    /\ UNCHANGED <<connection, bufVars, bytes_sent, pc, recvVars, lifecycle>>
    /\ UNCHANGED <<unitVars, cfgVars, wrapVars, jobVars>>

\* REPLace.py:171-173, 177-178: write() raises (on a closed port it always
\* does): caught when SendHandler covers it and raised again as "Send failed"
USendFails(exc) ==
    /\ IsUploader /\ Call /\ ~dry_run
    /\ connection # "None"
    /\ result' = Done("send",
                      IF Catches(SendHandler, exc) THEN "SendFailed" ELSE "raised", 0, 0)
    /\ UNCHANGED <<connection, bufVars, bytes_sent, pc, recvVars, lifecycle>>
    /\ UNCHANGED <<unitVars, cfgVars, wrapVars, jobVars>>

\* REPLace.py:171-176: the command is written and counted, recv() follows
USendOk(line) ==
    /\ IsUploader /\ Call /\ ~dry_run
    /\ connection = "open"
    /\ bytes_sent' = bytes_sent + Len(Cmd(line))
    /\ pc' = "recv" /\ recv_ret' = "send"
    /\ result' = Done("send", "running", Len(Cmd(line)), Len(Cmd(line)))
    /\ UNCHANGED <<connection, bufVars, reads, lifecycle>>
    /\ UNCHANGED <<unitVars, cfgVars, wrapVars, jobVars>>

\* REPLace.py:186-190: recv() returns at once
URecvNothing ==
    /\ IsUploader /\ Call
    /\ dry_run \/ connection = "None"
    /\ result' = Done("recv", "ok", 0, 0)
    /\ UNCHANGED <<connection, bufVars, bytes_sent, pc, recvVars, lifecycle>>
    /\ UNCHANGED <<unitVars, cfgVars, wrapVars, jobVars>>

\* REPLace.py:192: a client calls recv() itself
URecvCall ==
    /\ IsUploader /\ Call /\ ~dry_run
    /\ connection # "None"
    /\ pc' = "recv" /\ recv_ret' = "recv"
    /\ result' = Done("recv", "running", 0, 0)
    /\ UNCHANGED <<connection, bufVars, bytes_sent, reads, lifecycle>>
    /\ UNCHANGED <<unitVars, cfgVars, wrapVars, jobVars>>

\* REPLace.py:193-198: one read that returns data before the deadline
URecvRead(data) ==
    /\ IsUploader /\ pc = "recv"
    /\ connection = "open"
    /\ reads < MaxReads
    /\ Len(received) + Len(data) <= MaxStream
    /\ rbuffer' = rbuffer \o DecodeReplace(data)
    /\ received' = received \o data
    /\ reads' = reads + 1
    /\ UNCHANGED <<connection, bytes_sent, pc, recv_ret, surfaced, calls,
                   lifecycle, result>>
    /\ UNCHANGED <<unitVars, cfgVars, wrapVars, jobVars>>

\* REPLace.py:199-222: the loop ends (an empty read, a read error or the
\* deadline) and the buffer is framed; then the caller goes on: _connect and
\* send return, _disconnect goes to close()
URecvLeave ==
    /\ IsUploader /\ pc = "recv"
    /\ LET p == RecvProcess(rbuffer, recv_ret \in {"connect", "disconnect"})
       IN  /\ rbuffer' = p.rbuffer
           /\ surfaced' = surfaced \o Entries(p.lines, "line", recv_ret)
                                   \o Entries(p.rest, "rest", recv_ret)
    /\ reads' = 0 /\ recv_ret' = "none"
    /\ IF recv_ret = "disconnect"
       THEN pc' = "close" /\ UNCHANGED <<result, lifecycle>>
       ELSE /\ pc' = "idle"
            /\ result' = [result EXCEPT !.out = "ok"]
            /\ lifecycle' = IF recv_ret = "connect" THEN "Connected" ELSE lifecycle
    /\ UNCHANGED <<connection, bytes_sent, received, calls>>

URecvExit == URecvLeave /\ UNCHANGED <<unitVars, cfgVars, wrapVars, jobVars>>

\* REPLace.py:149: _disconnect does nothing without a connection or in a dry run
UDisconnectNothing ==
    /\ IsUploader /\ Call
    /\ connection = "None" \/ dry_run
    /\ result' = Done("disconnect", "ok", 0, 0)
    /\ lifecycle' = "Disconnected"
    /\ UNCHANGED <<connection, bufVars, bytes_sent, pc, recvVars>>
    /\ UNCHANGED <<unitVars, cfgVars, wrapVars, jobVars>>

\* REPLace.py:150-151, 155-156: the Ctrl-C write raises (on a closed port it
\* always does); close() is not reached
UDisconnectWriteFails(exc) ==
    /\ IsUploader /\ Call /\ ~dry_run
    /\ connection # "None"
    /\ result' = Done("disconnect",
                      IF Catches(UDisconnectHandler, exc) THEN "logged" ELSE "raised",
                      0, 0)
    /\ lifecycle' = "Disconnected"
    /\ UNCHANGED <<connection, bufVars, bytes_sent, pc, recvVars>>
    /\ UNCHANGED <<unitVars, cfgVars, wrapVars, jobVars>>

\* REPLace.py:150-152: Ctrl-C Ctrl-C is written, recv(done=True) follows
UDisconnectWrite ==
    /\ IsUploader /\ Call /\ ~dry_run
    /\ connection = "open"
    /\ pc' = "recv" /\ recv_ret' = "disconnect"
    /\ result' = Done("disconnect", "running", 2, 0)
    /\ UNCHANGED <<connection, bufVars, bytes_sent, reads, lifecycle>>
    /\ UNCHANGED <<unitVars, cfgVars, wrapVars, jobVars>>

\* REPLace.py:153-154: close() succeeds
UDisconnectClose ==
    /\ IsUploader /\ pc = "close"
    /\ connection' = "closed"
    /\ pc' = "idle"
    /\ result' = [result EXCEPT !.out = "ok"]
    /\ lifecycle' = "Disconnected"
    /\ UNCHANGED <<bufVars, bytes_sent, recvVars, calls>>
    /\ UNCHANGED <<unitVars, cfgVars, wrapVars, jobVars>>

\* REPLace.py:153, 155-156: close() raises and leaves the port as it was
UDisconnectCloseFails(exc) ==
    /\ IsUploader /\ pc = "close"
    /\ pc' = "idle"
    /\ result' = [result EXCEPT
                    !.out = IF Catches(UDisconnectHandler, exc) THEN "logged" ELSE "raised"]
    /\ lifecycle' = "Disconnected"
    /\ UNCHANGED <<connection, bufVars, bytes_sent, recvVars, calls>>
    /\ UNCHANGED <<unitVars, cfgVars, wrapVars, jobVars>>

UploaderStep ==
    \/ UConnectDry
    \/ UConnectOpenFails
    \/ UConnectInitFails
    \/ UConnectOk
    \/ USendDry
    \/ USendNotConnected
    \/ USendFails("SerialException")
    \/ \E line \in SendLines : USendOk(line)
    \/ URecvNothing
    \/ URecvCall
    \/ \E data \in Chunks : URecvRead(data)
    \/ URecvExit
    \/ UDisconnectNothing
    \/ UDisconnectWriteFails("SerialException")
    \/ UDisconnectWrite
    \/ UDisconnectClose
    \/ \E exc \in ExcKinds : UDisconnectCloseFails(exc)

\* REPLace.py:67-96: the state the constructor leaves
InitUploaderChannel ==
    /\ impl = "Uploader"
    /\ connection = "None"
    /\ rbuffer = <<>>
    /\ dry_run \in BOOLEAN
    /\ bytes_sent = 0
    /\ pc = "idle" /\ recv_ret = "none" /\ reads = 0
    /\ received = <<>> /\ surfaced = <<>> /\ calls = 0
    /\ lifecycle = "Disconnected"
    /\ result = Done("none", "none", 0, 0)

(***************************************************************************)
(* TaEspClient (esp_wifi_serial.py): send, recv and close on the caller's  *)
(* thread. The constructor has opened the port.                            *)
(***************************************************************************)
IsTaEsp == impl = "TaEspClient"

\* esp_wifi_serial.py:106-108: the lines recv returns
TaRecvLines(buf) ==
    LET parts == Split(buf, "LF")
    IN  [i \in 1..Len(parts) |-> RStrip(parts[i])]

\* esp_wifi_serial.py:91: write() raises (on a closed port it always does);
\* send has no except clause
TSendFails ==
    /\ IsTaEsp /\ Call
    /\ result' = Done("send", "raised", 0, 0)
    /\ UNCHANGED <<connection, bufVars, bytes_sent, pc, recvVars, lifecycle>>
    /\ UNCHANGED <<unitVars, cfgVars, wrapVars, jobVars>>

\* esp_wifi_serial.py:91-93: the command is written, recv() follows
TSendOk(line) ==
    /\ IsTaEsp /\ Call
    /\ connection = "open"
    /\ pc' = "recv" /\ recv_ret' = "send"
    /\ result' = Done("send", "running", Len(Cmd(line)), 0)
    /\ UNCHANGED <<connection, bufVars, bytes_sent, reads, lifecycle>>
    /\ UNCHANGED <<unitVars, cfgVars, wrapVars, jobVars>>

\* esp_wifi_serial.py:95-101: a client calls recv() itself
TRecvCall ==
    /\ IsTaEsp /\ Call
    /\ pc' = "recv" /\ recv_ret' = "recv"
    /\ result' = Done("recv", "running", 0, 0)
    /\ UNCHANGED <<connection, bufVars, bytes_sent, reads, lifecycle>>
    /\ UNCHANGED <<unitVars, cfgVars, wrapVars, jobVars>>

\* esp_wifi_serial.py:102-104: one read that returns data; the strict decode
\* raises on an invalid byte, out of recv, before the buffer is extended
TRecvRead(data) ==
    /\ IsTaEsp /\ pc = "recv"
    /\ connection = "open"
    /\ Len(received) + Len(data) <= MaxStream
    /\ received' = received \o data
    /\ IF DecodeStrictRaises(data)
       THEN /\ pc' = "idle" /\ recv_ret' = "none"
            /\ result' = [result EXCEPT !.out = "raised"]
            /\ UNCHANGED rbuffer
       ELSE /\ rbuffer' = rbuffer \o data
            /\ UNCHANGED <<pc, recv_ret, result>>
    /\ UNCHANGED <<connection, bytes_sent, reads, surfaced, calls, lifecycle>>
    /\ UNCHANGED <<unitVars, cfgVars, wrapVars, jobVars>>

\* esp_wifi_serial.py:103: read() raises (on a closed port it always does)
TRecvReadFails ==
    /\ IsTaEsp /\ pc = "recv"
    /\ pc' = "idle" /\ recv_ret' = "none"
    /\ result' = [result EXCEPT !.out = "raised"]
    /\ UNCHANGED <<connection, bufVars, bytes_sent, reads, calls, lifecycle>>
    /\ UNCHANGED <<unitVars, cfgVars, wrapVars, jobVars>>

\* esp_wifi_serial.py:102-111: an empty read ends the loop; the buffer is
\* split, returned and emptied
TRecvExit ==
    /\ IsTaEsp /\ pc = "recv"
    /\ connection = "open"
    /\ surfaced' = surfaced \o Entries(TaRecvLines(rbuffer), "line", recv_ret)
    /\ rbuffer' = <<>>
    /\ pc' = "idle" /\ recv_ret' = "none"
    /\ result' = [result EXCEPT !.out = "ok"]
    /\ UNCHANGED <<connection, bytes_sent, reads, received, calls, lifecycle>>
    /\ UNCHANGED <<unitVars, cfgVars, wrapVars, jobVars>>

\* esp_wifi_serial.py:258-260
TClose ==
    /\ IsTaEsp /\ Call
    /\ connection' = "closed"
    /\ result' = Done("close", "ok", 0, 0)
    /\ lifecycle' = "Disconnected"
    /\ UNCHANGED <<bufVars, bytes_sent, pc, recvVars>>
    /\ UNCHANGED <<unitVars, cfgVars, wrapVars, jobVars>>

TaEspStep ==
    \/ TSendFails
    \/ \E line \in SendLines : TSendOk(line)
    \/ TRecvCall
    \/ \E data \in Chunks : TRecvRead(data)
    \/ TRecvReadFails
    \/ TRecvExit
    \/ TClose

\* esp_wifi_serial.py:15-31: the state the constructor leaves
InitTaEsp ==
    /\ impl = "TaEspClient"
    /\ connection = "open"
    /\ rbuffer = <<>>
    /\ dry_run = FALSE
    /\ bytes_sent = 0
    /\ pc = "idle" /\ recv_ret = "none" /\ reads = 0
    /\ received = <<>> /\ surfaced = <<>> /\ calls = 0
    /\ lifecycle = "Connected"
    /\ result = Done("none", "none", 0, 0)

(***************************************************************************)
(* SerialConnectionWrapper (serial_connection_wrapper.py): connect,        *)
(* disconnect and send on the caller's thread, _recv_worker on the worker  *)
(* threads, and observer callbacks that run on a worker thread inside      *)
(* recv_data.emit.                                                         *)
(***************************************************************************)
IsWrapper == impl = "SerialConnectionWrapper"

MainThread == <<"main", 0>>
NoThread == <<"none", 0>>
Worker(i) == <<"w", i>>
Workers == {Worker(i) : i \in 1..MaxWorkers}

\* threading.Thread.is_alive()
Alive(t) == t \in Workers /\ wpc[t] \notin {"unborn", "dead"}

\* the worker is inside an observer callback, for as long as that takes
InCallback(t) ==
    /\ t \in Workers
    /\ wpc[t] \in {"cb", "cb_join", "cb_close", "cb_after", "cb_lock", "cb_send"}

\* the thread object the next connect() creates
NextWorker ==
    Worker(CHOOSE i \in 1..MaxWorkers :
              /\ wpc[Worker(i)] = "unborn"
              /\ \A j \in 1..(i - 1) : wpc[Worker(j)] # "unborn")

\* the slots of recv_data, in the order they were connected
\* (serial_connection_wrapper.py:19-22, 53)
Observers == 1..NumObservers

\* serial_connection_wrapper.py:33: an except clause that takes nothing
EmitNoHandler == "none"

\* serial_connection_wrapper.py:33: the except clause around each slot
EmitHandler == "Exception"

\* serial_connection_wrapper.py:258-268
is_connected == connected_flag /\ connection # "None" /\ connection = "open"

\* serial_connection_wrapper.py:170: disconnect's except clause
WDisconnectHandler == "Exception"

\* serial_connection_wrapper.py:233-240: the lines the worker emits for one
\* chunk
WorkerLines(data) ==
    LET parts == Split(DecodeReplace(data), "LF")
        clean == [i \in 1..Len(parts) |-> Strip(StripSet(parts[i], {"CR"}))]
    IN  SelectSeq(clean, LAMBDA l : l # <<>>)

\* threading.Thread.join(timeout=2) on thread t returns: t has ended, or the
\* two seconds are over, which takes a worker that sits in a callback (its
\* reads time out after 0.1 s)
JoinReturns(t) == ~Alive(t) \/ InCallback(t)

workerVars == <<wpc, wlines, cb_target, recv_lock, cb_result, obsVars, read_errors>>

\* serial_connection_wrapper.py:103-110, 140-144: serial.Serial(...) raises
WConnectOpenFails ==
    /\ IsWrapper /\ Call
    /\ connected_flag' = FALSE
    /\ result' = Done("connect", "False", 0, 0)
    /\ lifecycle' = "Disconnected"
    /\ UNCHANGED <<connection, received, surfaced, pc, stop_signal, recv_thread,
                   send_lock, workerVars>>
    /\ UNCHANGED <<unitVars, cfgVars, pollVars, jobVars>>

\* serial_connection_wrapper.py:103-112: the port opens
WConnectOpen ==
    /\ IsWrapper /\ Call
    /\ \E w \in Workers : wpc[w] = "unborn"
    /\ connection' = "open"
    /\ pc' = "connect"
    /\ result' = Done("connect", "running", 0, 0)
    /\ UNCHANGED <<received, surfaced, lifecycle, connected_flag, stop_signal,
                   recv_thread, send_lock, workerVars>>
    /\ UNCHANGED <<unitVars, cfgVars, pollVars, jobVars>>

\* serial_connection_wrapper.py:115-116, 140-144: a reset_*_buffer() raises
WConnectResetFails ==
    /\ IsWrapper /\ pc = "connect"
    /\ connected_flag' = FALSE
    /\ pc' = "idle"
    /\ result' = [result EXCEPT !.out = "False"]
    /\ lifecycle' = "Disconnected"
    /\ UNCHANGED <<connection, received, surfaced, calls, stop_signal, recv_thread,
                   send_lock, workerVars>>
    /\ UNCHANGED <<unitVars, cfgVars, pollVars, jobVars>>

\* serial_connection_wrapper.py:119-138: the worker thread is started
WConnectFinish ==
    /\ IsWrapper /\ pc = "connect"
    /\ stop_signal' = FALSE
    /\ recv_thread' = NextWorker
    /\ wpc' = [wpc EXCEPT ![NextWorker] = "check"]
    /\ connected_flag' = TRUE
    /\ pc' = "idle"
    /\ result' = [result EXCEPT !.out = "True"]
    /\ lifecycle' = "Connected"
    /\ cb_result' = [op |-> "none", out |-> "none"]
    /\ UNCHANGED <<connection, received, surfaced, calls, send_lock, wlines,
                   cb_target, recv_lock>>
    /\ UNCHANGED <<unitVars, cfgVars, pollVars, jobVars, obsVars, read_errors>>

\* serial_connection_wrapper.py:152-160: the stop flag is set; a live worker
\* is joined
WDisconnectBegin ==
    /\ IsWrapper /\ Call
    /\ stop_signal' = TRUE
    /\ pc' = IF Alive(recv_thread) THEN "join" ELSE "dc_close"
    /\ result' = Done("disconnect", "running", 0, 0)
    /\ UNCHANGED <<connection, received, surfaced, lifecycle, connected_flag,
                   recv_thread, send_lock, workerVars>>
    /\ UNCHANGED <<unitVars, cfgVars, pollVars, jobVars>>

\* serial_connection_wrapper.py:160: join(timeout=2) returns
WDisconnectJoined ==
    /\ IsWrapper /\ pc = "join"
    /\ JoinReturns(recv_thread)
    /\ pc' = "dc_close"
    /\ UNCHANGED <<connection, received, surfaced, calls, lifecycle, result,
                   connected_flag, stop_signal, recv_thread, send_lock, workerVars>>
    /\ UNCHANGED <<unitVars, cfgVars, pollVars, jobVars>>

\* serial_connection_wrapper.py:163-168: an open port is closed, the flag is
\* cleared
WDisconnectClose ==
    /\ IsWrapper /\ pc = "dc_close"
    /\ connection' = IF connection = "open" THEN "closed" ELSE connection
    /\ connected_flag' = FALSE
    /\ pc' = "idle"
    /\ result' = [result EXCEPT !.out = "ok"]
    /\ lifecycle' = "Disconnected"
    /\ UNCHANGED <<received, surfaced, calls, stop_signal, recv_thread, send_lock,
                   workerVars>>
    /\ UNCHANGED <<unitVars, cfgVars, pollVars, jobVars>>

\* serial_connection_wrapper.py:163-164, 170-171: close() raises and leaves
\* the port as it was; the flag is not reached
WDisconnectCloseFails(exc) ==
    /\ IsWrapper /\ pc = "dc_close"
    /\ connection = "open"
    /\ pc' = "idle"
    /\ result' = [result EXCEPT
                    !.out = IF Catches(WDisconnectHandler, exc) THEN "logged" ELSE "raised"]
    /\ lifecycle' = "Disconnected"
    /\ UNCHANGED <<connection, received, surfaced, calls, connected_flag, stop_signal,
                   recv_thread, send_lock, workerVars>>
    /\ UNCHANGED <<unitVars, cfgVars, pollVars, jobVars>>

\* serial_connection_wrapper.py:183-185
WSendNotConnected ==
    /\ IsWrapper /\ Call
    /\ ~connected_flag \/ connection = "None"
    /\ result' = Done("send", "NotConnected", 0, 0)
    /\ UNCHANGED <<connection, received, surfaced, pc, lifecycle, connected_flag,
                   stop_signal, recv_thread, send_lock, workerVars>>
    /\ UNCHANGED <<unitVars, cfgVars, pollVars, jobVars>>

\* serial_connection_wrapper.py:183-188: send_lock is taken
WSendAcquire ==
    /\ IsWrapper /\ Call
    /\ connected_flag /\ connection # "None"
    /\ send_lock = NoThread
    /\ send_lock' = MainThread
    /\ pc' = "send"
    /\ result' = Done("send", "running", 0, 0)
    /\ UNCHANGED <<connection, received, surfaced, lifecycle, connected_flag,
                   stop_signal, recv_thread, workerVars>>
    /\ UNCHANGED <<unitVars, cfgVars, pollVars, jobVars>>

\* serial_connection_wrapper.py:189-204: the data is written and flushed
WSendWrite(data) ==
    /\ IsWrapper /\ pc = "send"
    /\ connection = "open"
    /\ send_lock' = NoThread
    /\ pc' = "idle"
    /\ result' = [result EXCEPT !.out = "True", !.wrote = Len(data)]
    /\ UNCHANGED <<connection, received, surfaced, calls, lifecycle, connected_flag,
                   stop_signal, recv_thread, workerVars>>
    /\ UNCHANGED <<unitVars, cfgVars, pollVars, jobVars>>

\* serial_connection_wrapper.py:195-196, 206-213: write() or flush() raises
\* (on a closed port it always does); both except clauses return False
WSendWriteFails ==
    /\ IsWrapper /\ pc = "send"
    /\ send_lock' = NoThread
    /\ pc' = "idle"
    /\ result' = [result EXCEPT !.out = "SendFailed"]
    /\ UNCHANGED <<connection, received, surfaced, calls, lifecycle, connected_flag,
                   stop_signal, recv_thread, workerVars>>
    /\ UNCHANGED <<unitVars, cfgVars, pollVars, jobVars>>

mainVars == <<pc, calls, lifecycle, result, connected_flag, recv_thread, send_lock>>

\* serial_connection_wrapper.py:223, 255-256: the stop flag ends the loop
WorkerStop(w) ==
    /\ IsWrapper /\ wpc[w] = "check"
    /\ stop_signal
    /\ wpc' = [wpc EXCEPT ![w] = "dead"]
    /\ UNCHANGED <<connection, received, surfaced, stop_signal, mainVars, wlines,
                   cb_target, recv_lock, cb_result>>
    /\ UNCHANGED <<unitVars, cfgVars, pollVars, jobVars, obsVars, read_errors>>

\* serial_connection_wrapper.py:223-229: recv_lock is taken; without an open
\* port the loop ends, else read() is called
WorkerEnter(w) ==
    /\ IsWrapper /\ wpc[w] = "check"
    /\ ~stop_signal
    /\ recv_lock = NoThread
    /\ IF connection = "open"
       THEN wpc' = [wpc EXCEPT ![w] = "read"] /\ recv_lock' = w
       ELSE wpc' = [wpc EXCEPT ![w] = "dead"] /\ UNCHANGED recv_lock
    /\ UNCHANGED <<connection, received, surfaced, stop_signal, mainVars, wlines,
                   cb_target, cb_result>>
    /\ UNCHANGED <<unitVars, cfgVars, pollVars, jobVars, obsVars, read_errors>>

\* serial_connection_wrapper.py:229-245: read() returns data, possibly none;
\* the chunk is split into the lines to emit
WorkerReadWithin(w, data, limit) ==
    /\ IsWrapper /\ wpc[w] = "read"
    /\ connection = "open"
    /\ Len(received) + Len(data) <= limit
    /\ received' = received \o data
    /\ recv_lock' = NoThread
    /\ wlines' = [wlines EXCEPT ![w] = WorkerLines(data)]
    /\ wpc' = [wpc EXCEPT ![w] = IF WorkerLines(data) = <<>> THEN "check" ELSE "emit"]
    /\ UNCHANGED <<connection, surfaced, stop_signal, mainVars, cb_target, cb_result>>
    /\ UNCHANGED <<unitVars, cfgVars, pollVars, jobVars, obsVars, read_errors>>

\* the same within the bytes the device sends to a streaming channel
WorkerRead(w, data) == WorkerReadWithin(w, data, MaxWorkerStream)

\* serial_connection_wrapper.py:229, 247-253: read() raises (on a closed
\* port it always does): a SerialException ends the loop, any other
\* exception goes on with it
WorkerReadFails(w, exc) ==
    /\ IsWrapper /\ wpc[w] = "read"
    /\ recv_lock' = NoThread
    /\ wpc' = [wpc EXCEPT ![w] = IF exc = "SerialException" THEN "dead" ELSE "check"]
    /\ read_errors' = [read_errors EXCEPT ![w] =
                         [raised |-> TRUE,
                          reported |-> IF exc = "SerialException" THEN @.reported + 1
                                                                  ELSE @.reported]]
    /\ UNCHANGED <<connection, received, surfaced, stop_signal, mainVars, wlines,
                   cb_target, cb_result>>
    /\ UNCHANGED <<unitVars, cfgVars, pollVars, jobVars, obsVars>>

\* serial_connection_wrapper.py:236-240, 28-30: the next line of the chunk is
\* emitted; emit calls the first slot
WorkerDeliver(w) ==
    /\ IsWrapper /\ wpc[w] = "emit"
    /\ surfaced' = surfaced \o Entries(<<Head(wlines[w])>>, "line", "worker")
    /\ wlines' = [wlines EXCEPT ![w] = Tail(wlines[w])]
    /\ wpc' = [wpc EXCEPT ![w] = "cb"]
    /\ cb_idx' = [cb_idx EXCEPT ![w] = 1]
    /\ got' = [got EXCEPT ![1] = @ + 1]
    /\ UNCHANGED <<connection, received, stop_signal, mainVars, cb_target,
                   recv_lock, cb_result, cb_raised>>
    /\ UNCHANGED <<unitVars, cfgVars, pollVars, jobVars, read_errors>>

\* serial_connection_wrapper.py:28-30, 236-245: emit goes on to the next
\* slot, and after the last one the worker goes on to the next line
EmitNext(w) ==
    IF cb_idx[w] < NumObservers
    THEN /\ cb_idx' = [cb_idx EXCEPT ![w] = @ + 1]
         /\ got' = [got EXCEPT ![cb_idx[w] + 1] = @ + 1]
         /\ wpc' = [wpc EXCEPT ![w] = "cb"]
         /\ UNCHANGED wlines
    ELSE /\ cb_idx' = [cb_idx EXCEPT ![w] = 0]
         /\ wpc' = [wpc EXCEPT ![w] = IF wlines[w] = <<>> THEN "check" ELSE "emit"]
         /\ UNCHANGED <<got, wlines>>

\* serial_connection_wrapper.py:30: the slot returns
WorkerCallbackReturn(w) ==
    /\ IsWrapper /\ wpc[w] \in {"cb", "cb_after"}
    /\ EmitNext(w)
    /\ UNCHANGED <<connection, received, surfaced, stop_signal, mainVars,
                   cb_target, recv_lock, cb_result, cb_raised>>
    /\ UNCHANGED <<unitVars, cfgVars, pollVars, jobVars, read_errors>>

\* serial_connection_wrapper.py:31-34, 242-245: the slot raises; what emit
\* does not catch leaves emit and the loop over the lines and is taken by
\* the worker's own except clause, which logs it and goes on to the next read
WorkerCallbackRaises(w, exc) ==
    /\ IsWrapper /\ wpc[w] \in {"cb", "cb_after"}
    /\ cb_raised' = IF cb_raised.slot = 0
                    THEN [slot |-> cb_idx[w], event |-> got[cb_idx[w]]]
                    ELSE cb_raised
    /\ IF Catches(EmitHandler, exc)
       THEN EmitNext(w)
       ELSE /\ cb_idx' = [cb_idx EXCEPT ![w] = 0]
            /\ wlines' = [wlines EXCEPT ![w] = <<>>]
            /\ wpc' = [wpc EXCEPT ![w] = "check"]
            /\ UNCHANGED got
    /\ UNCHANGED <<connection, received, surfaced, stop_signal, mainVars,
                   cb_target, recv_lock, cb_result>>
    /\ UNCHANGED <<unitVars, cfgVars, pollVars, jobVars, read_errors>>

\* serial_connection_wrapper.py:152-160, 170-171: an observer calls
\* disconnect() on the worker thread; joining the current thread raises
\* RuntimeError, which the except clause takes
WorkerCbDisconnect(w) ==
    /\ IsWrapper /\ wpc[w] = "cb"
    /\ stop_signal' = TRUE
    /\ cb_target' = [cb_target EXCEPT ![w] = recv_thread]
    /\ IF Alive(recv_thread) /\ recv_thread = w
       THEN /\ wpc' = [wpc EXCEPT ![w] = "cb_after"]
            /\ cb_result' = [op |-> "disconnect",
                             out |-> IF Catches(WDisconnectHandler, "Other")
                                     THEN "logged" ELSE "raised"]
            /\ lifecycle' = "Disconnected"
       ELSE /\ wpc' = [wpc EXCEPT ![w] = IF Alive(recv_thread) THEN "cb_join"
                                                               ELSE "cb_close"]
            /\ UNCHANGED <<cb_result, lifecycle>>
    /\ UNCHANGED <<connection, received, surfaced, pc, calls, result, connected_flag,
                   recv_thread, send_lock, wlines, recv_lock>>
    /\ UNCHANGED <<unitVars, cfgVars, pollVars, jobVars, obsVars, read_errors>>

\* serial_connection_wrapper.py:160: the callback's join(timeout=2) returns
WorkerCbJoined(w) ==
    /\ IsWrapper /\ wpc[w] = "cb_join"
    /\ JoinReturns(cb_target[w])
    /\ wpc' = [wpc EXCEPT ![w] = "cb_close"]
    /\ UNCHANGED <<connection, received, surfaced, stop_signal, mainVars, wlines,
                   cb_target, recv_lock, cb_result>>
    /\ UNCHANGED <<unitVars, cfgVars, pollVars, jobVars, obsVars, read_errors>>

\* serial_connection_wrapper.py:163-168, in the callback
WorkerCbClose(w) ==
    /\ IsWrapper /\ wpc[w] = "cb_close"
    /\ connection' = IF connection = "open" THEN "closed" ELSE connection
    /\ connected_flag' = FALSE
    /\ wpc' = [wpc EXCEPT ![w] = "cb_after"]
    /\ cb_result' = [op |-> "disconnect", out |-> "ok"]
    /\ lifecycle' = "Disconnected"
    /\ UNCHANGED <<received, surfaced, stop_signal, pc, calls, result, recv_thread,
                   send_lock, wlines, cb_target, recv_lock>>
    /\ UNCHANGED <<unitVars, cfgVars, pollVars, jobVars, obsVars, read_errors>>

\* serial_connection_wrapper.py:163-164, 170-171, in the callback
WorkerCbCloseFails(w, exc) ==
    /\ IsWrapper /\ wpc[w] = "cb_close"
    /\ connection = "open"
    /\ wpc' = [wpc EXCEPT ![w] = "cb_after"]
    /\ cb_result' = [op |-> "disconnect",
                     out |-> IF Catches(WDisconnectHandler, exc)
                             THEN "logged" ELSE "raised"]
    /\ lifecycle' = "Disconnected"
    /\ UNCHANGED <<connection, received, surfaced, stop_signal, pc, calls, result,
                   connected_flag, recv_thread, send_lock, wlines, cb_target,
                   recv_lock>>
    /\ UNCHANGED <<unitVars, cfgVars, pollVars, jobVars, obsVars, read_errors>>

WrapperStep ==
    \/ WConnectOpenFails
    \/ WConnectOpen
    \/ WConnectResetFails
    \/ WConnectFinish
    \/ WDisconnectBegin
    \/ WDisconnectJoined
    \/ WDisconnectClose
    \/ \E exc \in ExcKinds : WDisconnectCloseFails(exc)
    \/ WSendNotConnected
    \/ WSendAcquire
    \/ \E line \in SendLines : WSendWrite(Cmd(line))
    \/ WSendWriteFails
    \/ \E w \in Workers : WorkerStop(w)
    \/ \E w \in Workers : WorkerEnter(w)
    \/ \E w \in Workers : \E data \in Chunks \cup {<<>>} : WorkerRead(w, data)
    \/ \E w \in Workers : \E exc \in ExcKinds : WorkerReadFails(w, exc)
    \/ \E w \in Workers : WorkerDeliver(w)
    \/ \E w \in Workers : WorkerCallbackReturn(w)
    \/ \E w \in Workers : \E exc \in ExcKinds : WorkerCallbackRaises(w, exc)
    \/ \E w \in Workers : WorkerCbDisconnect(w)
    \/ \E w \in Workers : WorkerCbJoined(w)
    \/ \E w \in Workers : WorkerCbClose(w)
    \/ \E w \in Workers : \E exc \in ExcKinds : WorkerCbCloseFails(w, exc)

\* serial_connection_wrapper.py:84-90: the wrapper's fields after __init__
InitWrapVars ==
    /\ connected_flag = FALSE
    /\ stop_signal = FALSE
    /\ recv_thread = NoThread
    /\ wpc = [w \in Workers |-> "unborn"]
    /\ wlines = [w \in Workers |-> <<>>]
    /\ cb_target = [w \in Workers |-> NoThread]
    /\ send_lock = NoThread
    /\ recv_lock = NoThread
    /\ cb_result = [op |-> "none", out |-> "none"]
    /\ cb_idx = [w \in Workers |-> 0]
    /\ got = [o \in Observers |-> 0]
    /\ cb_raised = [slot |-> 0, event |-> 0]
    /\ read_errors = [w \in Workers |-> [raised |-> FALSE, reported |-> 0]]

\* no response is being decoded
NotDecoded == [fn |-> "none", kind |-> "none", tag |-> "none", val |-> <<>>]

InitNoDecode == dec_in = <<>> /\ dec_out = NotDecoded

\* serial_connection_wrapper.py:15-16: a signal nobody has connected to
InitNoSignal ==
    /\ slots = <<>> /\ emit_i = 0
    /\ delivered = [o \in {} |-> 0] /\ stayed = {} /\ emits = 0

\* no read loop has been looked at
NoEnd == [cause |-> "none", reads |-> 0]

\* connect() has not been called
InitNoWait ==
    /\ wait_pc = "idle" /\ wait_text = <<>> /\ wait_data = <<>> /\ wait_time = 0

\* no file is smashed
InitNoSmash == smash_level = 0 /\ smash_src = <<>> /\ smashed = <<>>

\* the signals of the class that its attributes name
SignalNames == {"recv_data", "error"}

\* serial_connection_wrapper.py:52-56: the class body makes one PySignal for
\* each name; nothing is connected
InitClassSignals == class_slots = [name \in SignalNames |-> <<>>] /\ heard = {}

InitNoUnits ==
    /\ InitNoDecode /\ InitNoSignal /\ recv_end = NoEnd
    /\ InitNoWait /\ InitNoSmash /\ InitClassSignals

\* no upload job: the job's fields as Uploader.__init__ leaves them
\* (REPLace.py:87-96), nothing walked, nothing written
InitJobFields ==
    /\ walk = <<>> /\ cur = <<>> /\ mk_left = 0 /\ todo_files = <<>>
    /\ fstep = "none" /\ chunks = <<>>
    /\ sent = <<>> /\ uploads = <<>> /\ temp_files = {}
    /\ files_uploaded = 0 /\ dirs_created = 0
    /\ upload_ret = "none"

InitNoJob ==
    /\ excludes = {} /\ includes = {}
    /\ job = "off"
    /\ InitJobFields

\* serial_connection_wrapper.py:77-92: the state the constructor leaves
InitWrapper ==
    /\ impl = "SerialConnectionWrapper"
    /\ connection = "None"
    /\ rbuffer = <<>>
    /\ dry_run = FALSE
    /\ bytes_sent = 0
    /\ pc = "idle" /\ recv_ret = "none" /\ reads = 0
    /\ received = <<>> /\ surfaced = <<>> /\ calls = 0
    /\ lifecycle = "Disconnected"
    /\ result = Done("none", "none", 0, 0)
    /\ InitWrapVars /\ InitNoUnits
    /\ InitNoJob

(***************************************************************************)
(* The channel: an instance of one of the three classes.                   *)
(***************************************************************************)
NextUploader == UploaderStep
NextTaEsp == TaEspStep
NextWrapper == WrapperStep

Init ==
    \/ InitUploaderChannel /\ InitWrapVars /\ InitNoJob /\ InitNoUnits
    \/ InitTaEsp /\ InitWrapVars /\ InitNoJob /\ InitNoUnits
    \/ InitWrapper

Next == NextUploader \/ NextTaEsp \/ NextWrapper

Spec == Init /\ [][Next]_vars

SpecWrapper == InitWrapper /\ [][NextWrapper]_vars

\* the Uploader's channel alone
InitUploader == InitUploaderChannel /\ InitWrapVars /\ InitNoJob /\ InitNoUnits

SpecUploader == InitUploader /\ [][NextUploader]_vars

(***************************************************************************)
(* The upload job (REPLace.py): Uploader.upload() run once on an Uploader  *)
(* built with smash off, over a local tree that does not change while the  *)
(* job runs. A path is the sequence of its components; the root is <<>>.   *)
(***************************************************************************)
MaxFilter == 1      \* items in the excludes list and in the includes list

\* REPLace.py:37 is 1024; scaled down with the file sizes
FILEBLOCKSIZE == 2

Root == <<>>

\* the local tree: the sub-directories and the files of each directory
DirsOf(d) ==
    CASE d = Root             -> {"lib", "sub"}
      [] d = <<"sub">>        -> {"deep"}
      [] OTHER                -> {}

FilesOf(d) ==
    CASE d = Root             -> {"a.py", "b.py"}
      [] d = <<"lib">>        -> {"b.py", "c.py"}
      [] d = <<"sub", "deep">> -> {"a.py"}
      [] OTHER                -> {}

\* the directories and the files of the tree, as paths
TreeDirs == {Root, <<"lib">>, <<"sub">>, <<"sub", "deep">>}
TreeFiles == {d \o <<f>> : d \in TreeDirs, f \in {"a.py", "b.py", "c.py"}}

\* the bytes of each file
FileData(name) ==
    CASE name = "a.py" -> <<"d", "d", "d">>
      [] name = "b.py" -> <<"d">>
      [] OTHER         -> <<>>

\* the order of str comparison on the names of the tree
NameOrder == <<"a.py", "b.py", "c.py", "deep", "lib", "sub">>

\* a list of distinct names in descending order
SortNamesDescending(S) ==
    LET n == Len(NameOrder)
    IN  SelectSeq([i \in 1..n |-> NameOrder[n + 1 - i]], LAMBDA x : x \in S)

\* list.sort() of a list of distinct names
SortNames(S) == SelectSeq(NameOrder, LAMBDA n : n \in S)

\* the items a caller may put in the excludes and includes lists
FilterItems == {<<"a.py">>, <<"b.py">>, <<"lib">>, <<"lib", "c.py">>, <<"sub", "deep">>}

FilterLists == UNION {[1..n -> FilterItems] : n \in 0..MaxFilter}

\* os.path.basename
Basename(path) == path[Len(path)]

\* REPLace.py:98-104, for None or a list
ProcessList(items) ==
    IF items = <<>> THEN {} ELSE {Basename(items[i]) : i \in 1..Len(items)}

\* REPLace.py:378-381: dirs[:] = [...]
FilterDirs(dirs) == {d \in dirs : d \notin excludes}

\* the filter with the include set taking precedence over the exclude set
FilterFilesIncludeWins(files) ==
    {f \in files : (includes = {} /\ f \notin excludes) \/ f \in includes}

\* REPLace.py:385-389
FilterFiles(files) ==
    {f \in files : f \notin excludes /\ (includes = {} \/ f \in includes)}

\* REPLace.py:402-404: the path relative to the root
Remote(dir, name) == dir \o <<name>>

\* REPLace.py:304-309: f.read(FILEBLOCKSIZE) until it returns nothing
RECURSIVE Blocks(_)
Blocks(data) ==
    IF data = <<>> THEN <<>>
    ELSE IF Len(data) <= FILEBLOCKSIZE THEN <<data>>
    ELSE <<SubSeq(data, 1, FILEBLOCKSIZE)>>
             \o Blocks(SubSeq(data, FILEBLOCKSIZE + 1, Len(data)))

\* the except clauses of _connect (REPLace.py:144), _create_directory
\* (REPLace.py:348) and upload (REPLace.py:415)
ConnectHandler == "SerialException"

\* a _create_directory without an except clause
CreateDirectoryNoHandler == "none"
CreateDirectoryHandler == "Exception"
UploadHandler == "Exception"

\* a write on the transport: the command, whether it went through, and
\* whether the settle delay and the drain followed it
Written(op, path, data, ok) ==
    [op |-> op, path |-> path, data |-> data, ok |-> ok,
     settled |-> FALSE, drained |-> FALSE]

\* REPLace.py:175: time.sleep(COMMAND_WAIT) after the write
Settled(w) == [w EXCEPT !.settled = TRUE]

\* a write that returns to its caller at once
NotDrained(w) == w

\* REPLace.py:141, 152, 176: recv() runs after the write
Drained(w) == [w EXCEPT !.drained = TRUE]

\* the text of a command, one token for the statement and one for each
\* component of the path and each byte of the data
CmdLine(op, path, data) == <<op>> \o path \o data

\* what the device answers to a command
JobReplies == {<<>>, <<"a", "LF">>}

\* what leaves send() when write() raises exc (REPLace.py:171-178)
SendRaises(exc) ==
    IF Catches(SendHandler, exc) THEN "SerialConnectionException" ELSE exc

\* what leaves _connect when a call in it raises exc (REPLace.py:144-145)
ConnectRaises(exc) ==
    IF Catches(ConnectHandler, exc) THEN "SerialConnectionException" ELSE exc

\* what an upload job leaves alone
jobConst == <<impl, dry_run, pc, recv_ret, reads, received, surfaced, calls,
              lifecycle, result, excludes, includes>>
\* the position of the walk and of the file being uploaded
walkVars == <<walk, cur, mk_left, todo_files, fstep, chunks>>
statVars == <<files_uploaded, dirs_created>>

\* REPLace.py:158-176 inside the job: the command is written and counted,
\* recv() frames the answer
JobSendOk(op, path, data) ==
    /\ connection = "open"
    /\ sent' = Append(sent, Drained(Settled(Written(op, path, data, TRUE))))
    /\ bytes_sent' = bytes_sent + Len(Cmd(CmdLine(op, path, data)))
    /\ \E reply \in JobReplies :
          rbuffer' = RecvProcess(rbuffer \o DecodeReplace(reply), FALSE).rbuffer

\* REPLace.py:171-173, 177-178 inside the job: write() raises
JobSendFails(op, path, data) ==
    /\ connection # "None"
    /\ sent' = Append(sent, Written(op, path, data, FALSE))
    /\ UNCHANGED <<bytes_sent, rbuffer>>

\* REPLace.py:415-417, 419: an exception reaches upload's except clause;
\* the finally block comes next
Abort(exc) ==
    /\ upload_ret' = IF Catches(UploadHandler, exc) THEN "False" ELSE "raised"
    /\ job' = "disconnect"

\* REPLace.py:106-116: _validate_port (called at REPLace.py:371) can open
\* and close the port
JValidateOk ==
    /\ job = "new" /\ ~dry_run
    /\ job' = "connect"
    /\ UNCHANGED <<connection, rbuffer, bytes_sent, walkVars, sent, uploads,
                   temp_files, statVars, upload_ret>>
    /\ UNCHANGED <<unitVars, jobConst, wrapVars>>

\* REPLace.py:106-119: the port cannot be opened
JValidateFails ==
    /\ job = "new" /\ ~dry_run
    /\ Abort("SerialConnectionException")
    /\ UNCHANGED <<connection, rbuffer, bytes_sent, walkVars, sent, uploads,
                   temp_files, statVars>>
    /\ UNCHANGED <<unitVars, jobConst, wrapVars>>

\* REPLace.py:370-376: a dry run goes to the walk at once
JStartDry ==
    /\ job = "new" /\ dry_run
    /\ job' = "walk" /\ walk' = <<Root>>
    /\ UNCHANGED <<connection, rbuffer, bytes_sent, cur, mk_left, todo_files, fstep,
                   chunks, sent, uploads, temp_files, statVars, upload_ret>>
    /\ UNCHANGED <<unitVars, jobConst, wrapVars>>

\* REPLace.py:129-136, 144-145: serial.Serial(...) raises in _connect
JConnectOpenFails ==
    /\ job = "connect"
    /\ Abort(ConnectRaises("SerialException"))
    /\ UNCHANGED <<connection, rbuffer, bytes_sent, walkVars, sent, uploads,
                   temp_files, statVars>>
    /\ UNCHANGED <<unitVars, jobConst, wrapVars>>

\* REPLace.py:129-140, 144-145: the port opens, the Ctrl-C write raises
JConnectInitFails(exc) ==
    /\ job = "connect"
    /\ connection' = "open"
    /\ sent' = Append(sent, Written("interrupt", <<>>, <<>>, FALSE))
    /\ Abort(ConnectRaises(exc))
    /\ UNCHANGED <<rbuffer, bytes_sent, walkVars, uploads, temp_files, statVars>>
    /\ UNCHANGED <<unitVars, jobConst, wrapVars>>

\* REPLace.py:129-143: the port opens, Ctrl-C Ctrl-C is written and
\* recv(done=True) frames what the device had pending
JConnectOk ==
    /\ job = "connect"
    /\ connection' = "open"
    /\ sent' = Append(sent, Drained(Written("interrupt", <<>>, <<>>, TRUE)))
    /\ \E reply \in JobReplies :
          rbuffer' = RecvProcess(rbuffer \o DecodeReplace(reply), TRUE).rbuffer
    /\ job' = "import"
    /\ UNCHANGED <<bytes_sent, walkVars, uploads, temp_files, statVars, upload_ret>>
    /\ UNCHANGED <<unitVars, jobConst, wrapVars>>

\* REPLace.py:373-376: send("import os"), then the walk starts
JImportOk ==
    /\ job = "import"
    /\ JobSendOk("import", <<>>, <<>>)
    /\ job' = "walk" /\ walk' = <<Root>>
    /\ UNCHANGED <<connection, cur, mk_left, todo_files, fstep, chunks, uploads,
                   temp_files, statVars, upload_ret>>
    /\ UNCHANGED <<unitVars, jobConst, wrapVars>>

\* REPLace.py:373, 415-417: the send raises
JImportFails(exc) ==
    /\ job = "import"
    /\ JobSendFails("import", <<>>, <<>>)
    /\ Abort(SendRaises(exc))
    /\ UNCHANGED <<connection, walkVars, uploads, temp_files, statVars>>
    /\ UNCHANGED <<unitVars, jobConst, wrapVars>>

\* REPLace.py:376-389: os.walk yields the next directory, top down; the
\* pruned, sorted sub-directories are visited next, before the rest; the
\* files are filtered and sorted
JWalkVisit ==
    /\ job = "walk" /\ walk # <<>>
    /\ LET d     == Head(walk)
           dirs  == SortNames(FilterDirs(DirsOf(d)))
           files == SortNames(FilterFiles(FilesOf(d)))
           mk    == IF d = Root THEN 0 ELSE Len(files)
       IN  /\ walk' = [i \in 1..Len(dirs) |-> d \o <<dirs[i]>>] \o Tail(walk)
           /\ cur' = d
           /\ todo_files' = files
           /\ mk_left' = mk
           /\ job' = IF mk > 0 THEN "mkdir" ELSE IF files # <<>> THEN "file" ELSE "walk"
           /\ fstep' = IF mk = 0 /\ files # <<>> THEN "prepare" ELSE "none"
    /\ UNCHANGED <<connection, rbuffer, bytes_sent, chunks, sent, uploads, temp_files,
                   statVars, upload_ret>>
    /\ UNCHANGED <<unitVars, jobConst, wrapVars>>

\* REPLace.py:407-413: the walk is over, upload returns True
JWalkDone ==
    /\ job = "walk" /\ walk = <<>>
    /\ upload_ret' = "True"
    /\ job' = "disconnect"
    /\ UNCHANGED <<connection, rbuffer, bytes_sent, walkVars, sent, uploads,
                   temp_files, statVars>>
    /\ UNCHANGED <<unitVars, jobConst, wrapVars>>

\* REPLace.py:393-398: one turn of the loop that calls _create_directory
\* is over
MkdirReturns ==
    /\ mk_left' = mk_left - 1
    /\ job' = IF mk_left = 1 THEN "file" ELSE "mkdir"
    /\ fstep' = IF mk_left = 1 THEN "prepare" ELSE "none"

\* a dry run that counts the directory before it returns
JMkdirDryCounted ==
    /\ job = "mkdir" /\ dry_run
    /\ dirs_created' = dirs_created + 1
    /\ MkdirReturns
    /\ UNCHANGED <<connection, rbuffer, bytes_sent, walk, cur, todo_files, chunks,
                   sent, uploads, temp_files, files_uploaded, upload_ret>>
    /\ UNCHANGED <<unitVars, jobConst, wrapVars>>

\* REPLace.py:334-336
JMkdirDry ==
    /\ job = "mkdir" /\ dry_run
    /\ MkdirReturns
    /\ UNCHANGED <<connection, rbuffer, bytes_sent, walk, cur, todo_files, chunks,
                   sent, uploads, temp_files, statVars, upload_ret>>
    /\ UNCHANGED <<unitVars, jobConst, wrapVars>>

\* REPLace.py:338-347: the mkdir command is sent and counted
JMkdirOk ==
    /\ job = "mkdir" /\ ~dry_run
    /\ JobSendOk("mkdir", cur, <<>>)
    /\ dirs_created' = dirs_created + 1
    /\ MkdirReturns
    /\ UNCHANGED <<connection, walk, cur, todo_files, chunks, uploads, temp_files,
                   files_uploaded, upload_ret>>
    /\ UNCHANGED <<unitVars, jobConst, wrapVars>>

\* REPLace.py:346, 348-349: the send raises; _create_directory logs what its
\* except clause takes
JMkdirFails(exc) ==
    /\ job = "mkdir" /\ ~dry_run
    /\ JobSendFails("mkdir", cur, <<>>)
    /\ IF Catches(CreateDirectoryHandler, SendRaises(exc))
       THEN MkdirReturns /\ UNCHANGED upload_ret
       ELSE Abort(SendRaises(exc)) /\ UNCHANGED <<mk_left, fstep>>
    /\ UNCHANGED <<connection, walk, cur, todo_files, chunks, uploads, temp_files,
                   statVars>>
    /\ UNCHANGED <<unitVars, jobConst, wrapVars>>

\* REPLace.py:400-405: the loop over filtered_files goes to its next turn
NextFile ==
    /\ todo_files' = Tail(todo_files)
    /\ chunks' = <<>>
    /\ job' = IF Tail(todo_files) = <<>> THEN "walk" ELSE "file"
    /\ fstep' = IF Tail(todo_files) = <<>> THEN "none" ELSE "prepare"

\* REPLace.py:293-298 (_prepare_file, 258-280): _upload_file copies the file to
\* temp_dir/smash_<name>; a dry run returns here
JPrepare ==
    /\ job = "file" /\ fstep = "prepare"
    /\ uploads' = Append(uploads, Remote(cur, Head(todo_files)))
    /\ temp_files' = temp_files \cup {Head(todo_files)}
    /\ IF dry_run
       THEN NextFile
       ELSE /\ fstep' = "open"
            /\ chunks' = Blocks(FileData(Head(todo_files)))
            /\ UNCHANGED <<todo_files, job>>
    /\ UNCHANGED <<connection, rbuffer, bytes_sent, walk, cur, mk_left, sent,
                   statVars, upload_ret>>
    /\ UNCHANGED <<unitVars, jobConst, wrapVars>>

\* REPLace.py:293-294, 321-323: the copy raises, with the scratch file
\* written in part or not at all
JPrepareFails ==
    /\ job = "file" /\ fstep = "prepare"
    /\ uploads' = Append(uploads, Remote(cur, Head(todo_files)))
    /\ temp_files' \in {temp_files, temp_files \cup {Head(todo_files)}}
    /\ Abort("Other")
    /\ UNCHANGED <<connection, rbuffer, bytes_sent, walkVars, sent, statVars>>
    /\ UNCHANGED <<unitVars, jobConst, wrapVars>>

\* REPLace.py:301: the open command
JOpenOk ==
    /\ job = "file" /\ fstep = "open"
    /\ JobSendOk("open", Remote(cur, Head(todo_files)), <<>>)
    /\ fstep' = IF chunks = <<>> THEN "close" ELSE "chunk"
    /\ UNCHANGED <<connection, job, walk, cur, mk_left, todo_files, chunks, uploads,
                   temp_files, statVars, upload_ret>>
    /\ UNCHANGED <<unitVars, jobConst, wrapVars>>

\* REPLace.py:301, 321-323: the send raises
JOpenFails(exc) ==
    /\ job = "file" /\ fstep = "open"
    /\ JobSendFails("open", Remote(cur, Head(todo_files)), <<>>)
    /\ Abort(SendRaises(exc))
    /\ UNCHANGED <<connection, walkVars, uploads, temp_files, statVars>>
    /\ UNCHANGED <<unitVars, jobConst, wrapVars>>

\* REPLace.py:306-311: the next block goes out in a write command
JChunkOk ==
    /\ job = "file" /\ fstep = "chunk"
    /\ JobSendOk("write", <<>>, Head(chunks))
    /\ chunks' = Tail(chunks)
    /\ fstep' = IF Tail(chunks) = <<>> THEN "close" ELSE "chunk"
    /\ UNCHANGED <<connection, job, walk, cur, mk_left, todo_files, uploads,
                   temp_files, statVars, upload_ret>>
    /\ UNCHANGED <<unitVars, jobConst, wrapVars>>

\* REPLace.py:310, 321-323: the send raises; _upload_file logs and raises
\* again
JChunkFails(exc) ==
    /\ job = "file" /\ fstep = "chunk"
    /\ JobSendFails("write", <<>>, Head(chunks))
    /\ Abort(SendRaises(exc))
    /\ UNCHANGED <<connection, walkVars, uploads, temp_files, statVars>>
    /\ UNCHANGED <<unitVars, jobConst, wrapVars>>

\* REPLace.py:316-319: the close command; the file is counted
JCloseOk ==
    /\ job = "file" /\ fstep = "close"
    /\ JobSendOk("close", <<>>, <<>>)
    /\ files_uploaded' = files_uploaded + 1
    /\ NextFile
    /\ UNCHANGED <<connection, walk, cur, mk_left, uploads, temp_files,
                   dirs_created, upload_ret>>
    /\ UNCHANGED <<unitVars, jobConst, wrapVars>>

\* REPLace.py:316, 321-323: the send raises
JCloseFails(exc) ==
    /\ job = "file" /\ fstep = "close"
    /\ JobSendFails("close", <<>>, <<>>)
    /\ Abort(SendRaises(exc))
    /\ UNCHANGED <<connection, walkVars, uploads, temp_files, statVars>>
    /\ UNCHANGED <<unitVars, jobConst, wrapVars>>

\* REPLace.py:419-421: _disconnect ends; what its except clause
\* does not take leaves upload() before _cleanup_temp
DisconnectEnds(exc) ==
    IF exc = "none" \/ Catches(UDisconnectHandler, exc)
    THEN job' = "cleanup" /\ UNCHANGED upload_ret
    ELSE job' = "done" /\ upload_ret' = "raised"

\* REPLace.py:149: no connection, or a dry run
JDisconnectNothing ==
    /\ job = "disconnect"
    /\ connection = "None" \/ dry_run
    /\ DisconnectEnds("none")
    /\ UNCHANGED <<connection, rbuffer, bytes_sent, walkVars, sent, uploads,
                   temp_files, statVars>>
    /\ UNCHANGED <<unitVars, jobConst, wrapVars>>

\* REPLace.py:150-151, 155-156: the Ctrl-C write raises; close() is not
\* reached
JDisconnectWriteFails(exc) ==
    /\ job = "disconnect"
    /\ connection # "None" /\ ~dry_run
    /\ sent' = Append(sent, Written("interrupt", <<>>, <<>>, FALSE))
    /\ DisconnectEnds(exc)
    /\ UNCHANGED <<connection, rbuffer, bytes_sent, walkVars, uploads, temp_files,
                   statVars>>
    /\ UNCHANGED <<unitVars, jobConst, wrapVars>>

\* REPLace.py:150-154: Ctrl-C Ctrl-C is written, recv(done=True) frames the
\* answer, the port is closed
JDisconnectOk ==
    /\ job = "disconnect"
    /\ connection = "open" /\ ~dry_run
    /\ sent' = Append(sent, Drained(Written("interrupt", <<>>, <<>>, TRUE)))
    /\ \E reply \in JobReplies :
          rbuffer' = RecvProcess(rbuffer \o DecodeReplace(reply), TRUE).rbuffer
    /\ connection' = "closed"
    /\ DisconnectEnds("none")
    /\ UNCHANGED <<bytes_sent, walkVars, uploads, temp_files, statVars>>
    /\ UNCHANGED <<unitVars, jobConst, wrapVars>>

\* REPLace.py:150-153, 155-156: close() raises and leaves the port as it was
JDisconnectCloseFails(exc) ==
    /\ job = "disconnect"
    /\ connection = "open" /\ ~dry_run
    /\ sent' = Append(sent, Drained(Written("interrupt", <<>>, <<>>, TRUE)))
    /\ \E reply \in JobReplies :
          rbuffer' = RecvProcess(rbuffer \o DecodeReplace(reply), TRUE).rbuffer
    /\ DisconnectEnds(exc)
    /\ UNCHANGED <<connection, bytes_sent, walkVars, uploads, temp_files, statVars>>
    /\ UNCHANGED <<unitVars, jobConst, wrapVars>>

\* REPLace.py:421, 423-429: every smash_* file of temp_dir is unlinked (the
\* local file system does not fail); upload() returns
JCleanup ==
    /\ job = "cleanup"
    /\ temp_files' = {}
    /\ job' = "done"
    /\ UNCHANGED <<connection, rbuffer, bytes_sent, walkVars, sent, uploads,
                   statVars, upload_ret>>
    /\ UNCHANGED <<unitVars, jobConst, wrapVars>>

UploadStep ==
    \/ JValidateOk
    \/ JValidateFails
    \/ JStartDry
    \/ JConnectOpenFails
    \/ \E exc \in ExcKinds : JConnectInitFails(exc)
    \/ JConnectOk
    \/ JImportOk
    \/ \E exc \in ExcKinds : JImportFails(exc)
    \/ JWalkVisit
    \/ JWalkDone
    \/ JMkdirDry
    \/ JMkdirOk
    \/ \E exc \in ExcKinds : JMkdirFails(exc)
    \/ JPrepare
    \/ JPrepareFails
    \/ JOpenOk
    \/ \E exc \in ExcKinds : JOpenFails(exc)
    \/ JChunkOk
    \/ \E exc \in ExcKinds : JChunkFails(exc)
    \/ JCloseOk
    \/ \E exc \in ExcKinds : JCloseFails(exc)
    \/ JDisconnectNothing
    \/ \E exc \in ExcKinds : JDisconnectWriteFails(exc)
    \/ JDisconnectOk
    \/ \E exc \in ExcKinds : JDisconnectCloseFails(exc)
    \/ JCleanup

\* REPLace.py:67-96: an Uploader built with an excludes list and an includes
\* list, about to run upload()
InitUpload ==
    /\ InitUploaderChannel
    /\ InitWrapVars /\ InitNoUnits
    /\ \E ex \in FilterLists : excludes = ProcessList(ex)
    /\ \E inc \in FilterLists : includes = ProcessList(inc)
    /\ job = "new"
    /\ InitJobFields

NextUpload == UploadStep

SpecUpload == InitUpload /\ [][NextUpload]_vars

\* upload() has returned
Returned == job = "done"

(***************************************************************************)
(* The reference framing of the specification: the received bytes decoded  *)
(* with replacement, carriage returns removed, split at line feeds; the    *)
(* segments that a line feed ends are the complete lines.                  *)
(***************************************************************************)
CompletedSegments(raw) ==
    LET parts == Split(Remove(DecodeReplace(raw), "CR"), "LF")
    IN  SubSeq(parts, 1, Len(parts) - 1)

\* the texts of a sequence of entries
Texts(entries) == [i \in 1..Len(entries) |-> entries[i].text]

\* what was surfaced while the channel was in use: everything but the rest
\* that the teardown flushes
InUse == SelectSeq(surfaced, LAMBDA e : ~(e.kind = "rest" /\ e.op = "disconnect"))

\* no receive is under way and no line of a chunk waits to be emitted
ReceiveQuiet ==
    /\ pc # "recv"
    /\ \A w \in Workers : wlines[w] = <<>> /\ wpc[w] \notin {"read", "emit"}

\* s is a subsequence of t, texts compared without surrounding whitespace
RECURSIVE IsSubseq(_, _)
IsSubseq(s, t) ==
    IF s = <<>> THEN TRUE
    ELSE IF t = <<>> THEN FALSE
    ELSE IF Strip(Head(s)) = Strip(Head(t)) THEN IsSubseq(Tail(s), Tail(t))
    ELSE IsSubseq(s, Tail(t))

(***************************************************************************)
(* Properties of the channel.                                              *)
(***************************************************************************)
\* C1: once a receive has come to rest, the lines surfaced so far are the
\* complete lines of the reference framing of all bytes received, whatever
\* the chunks they arrived in.
C1_FramingIndependentOfChunking ==
    ReceiveQuiet => Texts(InUse) = CompletedSegments(received)

\* C2: the receive buffer holds at most MAX_BUFFER characters in every
\* state, between the reads of one receive too.
C2_BufferBounded == Len(rbuffer) <= MAX_BUFFER

\* C3: a non-blank text is surfaced while the channel is in use only when
\* the line feed that ends it has been received: the texts surfaced are,
\* in order, among the complete lines received.
C3_OnlyTerminatedLinesSurfaced ==
    IsSubseq(NonBlank(Texts(InUse)), CompletedSegments(received))

\* C4: a send() made in another state than Connected ends with the
\* not-connected outcome, has written nothing and has counted nothing.
C4_SendOutsideConnectedRejected ==
    (/\ result.op = "send" /\ result.out # "running"
     /\ result.pre # "Connected" /\ ~dry_run)
        => /\ result.out = "NotConnected"
           /\ result.wrote = 0
           /\ result.counted = 0

\* C5: once a disconnect() has returned, on the caller's thread or in an
\* observer callback, is_connected() is false.
C5_DisconnectedAfterDisconnect ==
    /\ (result.op = "disconnect" /\ result.out # "running") => ~is_connected
    /\ cb_result.op = "disconnect" => ~is_connected

\* C6: at most one receive worker thread is alive.
C6_AtMostOneWorker == Cardinality({w \in Workers : Alive(w)}) <= 1

\* C7: a disconnect never ends with an exception leaving it, on either
\* channel, on the caller's thread or in an observer callback.
C7_DisconnectNeverRaises ==
    /\ result.op = "disconnect" => result.out # "raised"
    /\ cb_result.op = "disconnect" => cb_result.out # "raised"

\* a teardown step failed and disconnect returned all the same
C7_Witness ==
    /\ result.op = "disconnect" /\ result.out = "logged"

(***************************************************************************)
(* Properties of the upload job.                                           *)
(***************************************************************************)
\* the files of the tree, the files the job handed to _upload_file and the
\* files it opened on the device
AllFiles == {p \in TreeFiles : p[Len(p)] \in FilesOf(SubSeq(p, 1, Len(p) - 1))}
Transferred == {uploads[i] : i \in 1..Len(uploads)}
Opened == {sent[i].path : i \in {j \in 1..Len(sent) : sent[j].op = "open" /\ sent[j].ok}}

\* the writes that opened a remote file
Opens == {i \in 1..Len(sent) : sent[i].op = "open" /\ sent[i].ok}

\* after the open at i, a close was written or tried before anything but
\* that file's chunk writes
ClosedAfter(i) ==
    \E j \in (i + 1)..Len(sent) :
        /\ sent[j].op = "close"
        /\ \A k \in (i + 1)..(j - 1) : sent[k].op = "write"

\* _upload_file is between the open and the close of a file
FileInProgress == job = "file" /\ fstep \in {"chunk", "close"}

\* C8: when upload() has returned, the transport is not open and no scratch
\* file is left.
C8_UploadLeavesNothingOpen ==
    Returned => connection # "open" /\ temp_files = {}

\* C9: every remote file that was opened gets a close command, written or
\* at least tried, before the job goes to another file or ends; only the
\* file being uploaded is open.
C9_EveryOpenedFileClosed ==
    \A i \in Opens :
        ClosedAfter(i) \/ (FileInProgress /\ \A j \in Opens : j <= i)

\* the files the filters let through: basename not excluded, basename
\* included when there is an include set, no ancestor directory excluded
Expected ==
    {p \in AllFiles :
        /\ Basename(p) \notin excludes
        /\ includes = {} \/ Basename(p) \in includes
        /\ \A i \in 1..(Len(p) - 1) : p[i] \notin excludes}

\* C10: the job hands to _upload_file only files the filters let through,
\* each once; a job that returns True has handed over all of them, and
\* outside a dry run has opened all of them on the device.
C10_TransfersExactlyFiltered ==
    /\ Transferred \subseteq Expected
    /\ Len(uploads) = Cardinality(Transferred)
    /\ (Returned /\ upload_ret = "True") =>
          /\ Transferred = Expected
          /\ ~dry_run => Opened = Expected

\* a job with an excluded directory and an include set has returned True:
\* b.py of the root went over, lib/b.py and a.py did not
C10_Witness ==
    /\ Returned /\ upload_ret = "True" /\ ~dry_run
    /\ excludes = {"lib"} /\ includes = {"b.py"}
    /\ Opened = {<<"b.py">>}

(***************************************************************************)
(* The order of the commands of an upload job.                             *)
(***************************************************************************)
\* the place of a name in the order of str comparison
NamePos(n) == CHOOSE i \in 1..Len(NameOrder) : NameOrder[i] = n

\* the directory of a file path
DirOf(p) == SubSeq(p, 1, Len(p) - 1)

\* d is a directory on the way to e, or e itself
IsPrefix(d, e) == Len(d) <= Len(e) /\ SubSeq(e, 1, Len(d)) = d

\* the first component in which two paths differ
FirstDiff(p, q) == CHOOSE i \in 1..Len(p) : i <= Len(q) /\ p[i] # q[i]
                                          /\ \A j \in 1..(i - 1) : p[j] = q[j]

\* file p goes before file q: the files of a directory in the order of their
\* names, before the files of its sub-directories; sub-directories in the
\* order of their names
GoesBefore(p, q) ==
    IF DirOf(p) = DirOf(q) THEN NamePos(Basename(p)) < NamePos(Basename(q))
    ELSE IF IsPrefix(DirOf(p), DirOf(q)) THEN TRUE
    ELSE IF IsPrefix(DirOf(q), DirOf(p)) THEN FALSE
    ELSE NamePos(p[FirstDiff(p, q)]) < NamePos(q[FirstDiff(p, q)])

\* the files of a set in that order
RECURSIVE InOrder(_)
InOrder(S) ==
    IF S = {} THEN <<>>
    ELSE LET first == CHOOSE p \in S : \A q \in S \ {p} : GoesBefore(p, q)
         IN  <<first>> \o InOrder(S \ {first})

\* the paths of the open commands written or tried, in the order they went
OpenedPaths ==
    LET opens == SelectSeq(sent, LAMBDA c : c.op = "open")
    IN  [i \in 1..Len(opens) |-> opens[i].path]

\* the data of the write commands that follow each other from index i on
RECURSIVE DataFrom(_)
DataFrom(i) ==
    IF i > Len(sent) \/ sent[i].op # "write" THEN <<>>
    ELSE sent[i].data \o DataFrom(i + 1)

\* s is the beginning of t
IsBeginning(s, t) == Len(s) <= Len(t) /\ SubSeq(t, 1, Len(s)) = s

\* C11: the commands of a job form one block per file: an open comes first
\* or after a command that is no open and no write, a write and a close
\* come after an open or a write, a write carries between one and
\* FILEBLOCKSIZE bytes; the files are opened in the order GoesBefore; and
\* when the job has returned True every file the filters let through has
\* its block, closed, with the bytes of the file in it.
C11_CommandsInBlocksInOrder ==
    /\ \A i \in 1..Len(sent) :
          /\ sent[i].op = "open" =>
                i = 1 \/ sent[i - 1].op \notin {"open", "write"}
          /\ sent[i].op \in {"write", "close"} =>
                i > 1 /\ sent[i - 1].op \in {"open", "write"}
          /\ sent[i].op = "write" =>
                Len(sent[i].data) >= 1 /\ Len(sent[i].data) <= FILEBLOCKSIZE
    /\ IsBeginning(OpenedPaths, InOrder(Expected))
    /\ (Returned /\ upload_ret = "True" /\ ~dry_run) =>
          /\ OpenedPaths = InOrder(Expected)
          /\ \A i \in 1..Len(sent) :
                sent[i].op = "open" =>
                    /\ DataFrom(i + 1) = FileData(Basename(sent[i].path))
                    /\ ClosedAfter(i)

\* a job over the whole tree has returned True: five files went over, a.py
\* in two blocks of data
C11_Witness ==
    /\ Returned /\ upload_ret = "True" /\ ~dry_run
    /\ excludes = {} /\ includes = {}
    /\ Len(OpenedPaths) = 5
    /\ \E i \in 1..Len(sent) : sent[i].op = "write" /\ Len(sent[i].data) = FILEBLOCKSIZE

\* C12: a dry run of upload() does nothing on the transport and leaves the
\* channel as the constructor made it: no connection, no write, an empty
\* receive buffer, all counters 0.
C12_DryRunTouchesNothing ==
    dry_run =>
        /\ connection = "None"
        /\ job \notin {"connect", "import"}
        /\ sent = <<>>
        /\ rbuffer = <<>>
        /\ bytes_sent = 0 /\ files_uploaded = 0 /\ dirs_created = 0

\* a dry run over the whole tree has returned True
C12_Witness ==
    /\ Returned /\ dry_run /\ upload_ret = "True"
    /\ Len(uploads) = 5

\* C13: once the send of an import, mkdir, open, write or close command has
\* failed on the transport, nothing but the Ctrl-C of the teardown is
\* written after it, and upload() returns False.
C13_SendFailureAborts ==
    \A i \in 1..Len(sent) :
        (sent[i].op # "interrupt" /\ ~sent[i].ok) =>
            /\ \A j \in (i + 1)..Len(sent) : sent[j].op = "interrupt"
            /\ Returned => upload_ret = "False"

\* the workers whose emit has not reached observer o yet
EmitPending(o) == {w \in Workers : InCallback(w) /\ cb_idx[w] < o}

\* C14: when an observer raises while an event is emitted, every observer
\* connected to the signal is still called with the event, and the worker
\* that emitted it goes on: every line the workers have emitted has reached
\* every observer except those an emit is still on its way to, and a worker
\* leaves an emit only after the last observer, with the lines that follow
\* still to deliver.
C14_ObserverFailureIsolated ==
    /\ [](\A o \in Observers :
            got[o] + Cardinality(EmitPending(o)) = Len(surfaced))
    /\ [][\A w \in Workers :
            (InCallback(w) /\ wpc'[w] \notin {"cb", "cb_join", "cb_close", "cb_after"}) =>
                /\ cb_idx[w] = NumObservers
                /\ wlines'[w] = wlines[w]
                /\ wpc'[w] = IF wlines[w] = <<>> THEN "check" ELSE "emit"]_vars

\* the first observer raised on the first line, and the second observer has
\* since been called with that line and with a later one
C14_Witness ==
    /\ cb_raised.slot = 1 /\ cb_raised.event = 1
    /\ NumObservers > 1
    /\ got[NumObservers] >= 2

\* the caller's thread holds send_lock and is inside connection.write()
\* (serial_connection_wrapper.py:188-196)
InWrite == pc = "send" /\ send_lock = MainThread

\* worker w holds recv_lock and is inside connection.read()
\* (serial_connection_wrapper.py:225-229)
InRead(w) == wpc[w] = "read" /\ recv_lock = w

\* C15: in streaming mode no reachable state has the caller's thread inside
\* the transport write of send() while a worker thread is inside a transport
\* read.
C15_WriteExcludesRead == ~(InWrite /\ \E w \in Workers : InRead(w))

\* C16: every error a read of the streaming worker raises, of whatever kind,
\* is reported once on the error event and followed by the worker's exit: a
\* worker whose read has raised has emitted exactly one error event and has
\* ended.
C16_ReadErrorReportedAndFatal ==
    \A w \in Workers :
        read_errors[w].raised => read_errors[w].reported = 1 /\ wpc[w] = "dead"

(***************************************************************************)
(* The polling channels against a device that never stops sending: every   *)
(* read returns bytes. The histories and TaEspClient's buffer, which grow   *)
(* for as long as the reads go on, are kept to their last MaxStream         *)
(* elements.                                                                *)
(***************************************************************************)
\* what one read returns
BusyChunks == {<<"a">>, <<"LF">>, <<"a", "LF">>}

\* REPLace.py:192-198: a read before the deadline; it returns data
BusyURead(data) ==
    /\ IsUploader /\ pc = "recv"
    /\ connection = "open"
    /\ reads < MaxReads
    /\ rbuffer' = rbuffer \o DecodeReplace(data)
    /\ received' = LastN(received \o data, MaxStream)
    /\ reads' = reads + 1
    /\ UNCHANGED <<connection, bytes_sent, pc, recv_ret, surfaced, calls,
                   lifecycle, result>>
    /\ UNCHANGED <<unitVars, cfgVars, wrapVars, jobVars>>

\* REPLace.py:192, 204-222: the deadline has passed; the loop ends and the
\* buffer is framed
BusyUDeadline == reads >= MaxReads /\ URecvExit

\* esp_wifi_serial.py:102-104: a read returns data, which is decoded and
\* appended; `while data` goes on to the next read
BusyTRead(data) ==
    /\ IsTaEsp /\ pc = "recv"
    /\ connection = "open"
    /\ ~DecodeStrictRaises(data)
    /\ rbuffer' = LastN(rbuffer \o data, MaxStream)
    /\ received' = LastN(received \o data, MaxStream)
    /\ UNCHANGED <<connection, bytes_sent, pc, recv_ret, reads, surfaced, calls,
                   lifecycle, result>>
    /\ UNCHANGED <<unitVars, cfgVars, wrapVars, jobVars>>

InitBusy ==
    \/ InitUploaderChannel /\ ~dry_run /\ InitWrapVars /\ InitNoJob /\ InitNoUnits
    \/ InitTaEsp /\ InitWrapVars /\ InitNoJob /\ InitNoUnits

NextBusy ==
    \/ UConnectOk
    \/ \E line \in SendLines : USendOk(line)
    \/ URecvCall
    \/ \E data \in BusyChunks : BusyURead(data)
    \/ BusyUDeadline
    \/ \E line \in SendLines : TSendOk(line)
    \/ TRecvCall
    \/ \E data \in BusyChunks : BusyTRead(data)

\* the thread inside recv() runs on: a read returns within the port's
\* timeout, and the loop condition is evaluated again
FairBusy ==
    /\ WF_vars(\E data \in BusyChunks : BusyURead(data))
    /\ WF_vars(BusyUDeadline)
    /\ WF_vars(\E data \in BusyChunks : BusyTRead(data))

SpecBusy == InitBusy /\ [][NextBusy]_vars /\ FairBusy

\* C17: every polling receive call terminates, at a quiet gap or at its
\* deadline, even when the device never stops sending.
C17_PollingReceiveTerminates == [](pc = "recv" => <>(pc # "recv"))

\* the same for the Uploader alone
UploaderReceiveTerminates == [](IsUploader /\ pc = "recv" => <>(pc # "recv"))

(***************************************************************************)
(* The response decoders of TaEspClient (esp_wifi_serial.py). A line is    *)
(* the sequence of its tokens: "SP" is a blank, "Q" a single quote, a      *)
(* punctuation mark is a token of its own, and a word or a number is one   *)
(* token. A decoder returns a value or raises.                             *)
(***************************************************************************)
MaxLines == 3       \* lines of a response drawn freely

\* what a call does: it returns a value, named by its tag, or raises
Ret(tag, v) == [kind |-> "returns", tag |-> tag, val |-> v]
Raises(e) == [kind |-> "raises", tag |-> e, val |-> <<>>]

\* `m in s` for strings
Contains(s, m) ==
    \E i \in 1..(Len(s) - Len(m) + 1) : SubSeq(s, i, i + Len(m) - 1) = m

\* str.startswith(m)
StartsWith(s, m) == Len(s) >= Len(m) /\ SubSeq(s, 1, Len(m)) = m

\* str.replace(m, '') for each token of the set cs
RemoveSet(s, cs) == SelectSeq(s, LAMBDA x : x \notin cs)

\* str.split(sep) for a separator of several characters
RECURSIVE SplitOn(_, _)
SplitOn(s, sep) ==
    IF ~Contains(s, sep) THEN <<s>>
    ELSE LET i == CHOOSE k \in 1..(Len(s) - Len(sep) + 1) :
                     /\ SubSeq(s, k, k + Len(sep) - 1) = sep
                     /\ \A j \in 1..(k - 1) : SubSeq(s, j, j + Len(sep) - 1) # sep
         IN  <<SubSeq(s, 1, i - 1)>> \o SplitOn(SubSeq(s, i + Len(sep), Len(s)), sep)

\* the numerals of the responses and their values
Numerals == {"0", "2", "4"}
NumVal(t) == CASE t = "0" -> 0 [] t = "2" -> 2 [] t = "4" -> 4

\* int(s) and float(s): the value, or ValueError
ParseNumber(s) ==
    IF Len(s) = 1 /\ s[1] \in Numerals THEN Ret("number", NumVal(s[1])) ELSE Raises("ValueError")

\* esp_wifi_serial.py:250-251: the round-trip time of a reply line, <<>>
\* when the line has none
PingTime(line) ==
    LET words == Split(line, "SP")
    IN  IF Len(words) > 6 /\ StartsWith(words[7], <<"time=">>)
        THEN LET t == ParseNumber(Remove(words[7], "time="))
             IN  IF t.kind = "raises" THEN t ELSE Ret("times", <<t.val>>)
        ELSE Ret("times", <<>>)

\* esp_wifi_serial.py:252-254: the success rate from the line before the
\* last, "skip" when that line is not two words
PingSuccess(line) ==
    IF Len(Split(line, "SP")) # 2 THEN Ret("skip", 0)
    ELSE LET factors == SplitOn(RemoveSet(line, {"(", ")"}), <<",", "SP">>)
         IN  IF Len(factors) < 2 THEN Raises("IndexError")
             ELSE LET received_n == ParseNumber(factors[2])
                      sent_n == ParseNumber(factors[1])
                  IN  IF received_n.kind = "raises" THEN received_n
                      ELSE IF sent_n.kind = "raises" THEN sent_n
                      ELSE IF sent_n.val = 0 THEN Raises("ZeroDivisionError")
                      ELSE Ret("rate", (received_n.val * 100) \div sent_n.val)

\* esp_wifi_serial.py:249-254: the loop over the reply lines, from pass i on
RECURSIVE PingLoop(_, _, _, _)
PingLoop(data, i, time, success) ==
    IF i >= Len(data) - 5 THEN Ret("loop", [time |-> time, success |-> success])
    ELSE LET t == PingTime(data[i + 3])
             s == PingSuccess(data[Len(data) - 1])
         IN  IF t.kind = "raises" THEN t
             ELSE IF s.kind = "raises" THEN s
             ELSE PingLoop(data, i + 1, time \o t.val,
                           IF s.tag = "skip" THEN success ELSE s.val)

\* esp_wifi_serial.py:225-256
analyse_ping(data) ==
    IF ~\E i \in 1..Len(data) : Contains(data[i], <<"uping">>) THEN Ret("False", <<>>)
    ELSE IF \E i \in 1..Len(data) : Contains(data[i], <<"EHOSTUNREACH">>)
    THEN Ret("error connection", <<>>)
    ELSE IF \E i \in 1..Len(data) : Contains(data[i], <<"OSError", ":", "SP", "-202">>)
    THEN Ret("error dns", <<>>)
    ELSE IF ~Contains(data[1], <<"uping">>) THEN Ret("False", <<>>)
    ELSE IF Len(data) < 2 THEN Raises("IndexError")
    ELSE IF ~Contains(data[2], <<"PING", "SP">>) THEN Ret("False", <<>>)
    ELSE LET split_target_data == Split(data[2], "SP")
         IN  IF Len(split_target_data) < 3 THEN Raises("IndexError")
             ELSE LET target == split_target_data[2]
                      ip == RemoveSet(split_target_data[3], {":", "(", ")"})
                      rest == PingLoop(data, 0, <<>>, 0)
                  IN  IF rest.kind = "raises" THEN rest
                      ELSE Ret("result", <<target, ip, rest.val.success, rest.val.time>>)

\* esp_wifi_serial.py:208-223
analyse_ip_status(data) ==
    LET split_data == Split(data, "Q")
    IN  IF Len(split_data) < 8 THEN Raises("IndexError")
        ELSE Ret("ip", <<split_data[2], split_data[4], split_data[6], split_data[8]>>)

\* esp_wifi_serial.py:33-51
analyse_data_scan(data) ==
    LET data_split == SplitOn(SubSeq(data, 3, Len(data) - 2), <<")", ",", "SP", "(">>)
        fields == [i \in 1..Len(data_split) |-> SplitOn(data_split[i], <<",", "SP">>)]
        nets == SelectSeq(fields, LAMBDA f : Len(f) = 6)
    IN  Ret("networks", [i \in 1..Len(nets) |-> [j \in 1..6 |-> Strip(nets[i][j])]])

\* esp_wifi_serial.py:152, 159: the echo check of connect() for a parameter
\* set to `value`: "False" when connect returns False, "goes on" otherwise
echo_check(data, value) ==
    IF Len(data) # 3 THEN Ret("False", <<>>)
    ELSE LET parts == Split(data[2], ":")
         IN  IF Len(parts) < 2 THEN Raises("IndexError")
             ELSE IF parts[2] # value THEN Ret("False", <<>>)
             ELSE Ret("goes on", <<>>)

\* the lines a response is made of
Echo == <<"uping">>
PingHdr == <<"PING", "SP", "host", "SP", "(", "addr", ")", ":">>
PingCut == <<"PING", "SP", "host">>
ReplyTo(t) == <<"w", "SP", "w", "SP", "w", "SP", "w", "SP", "w", "SP", "w", "SP", "time=", t>>
Stats(a, b) == <<"(", a, ",", "SP", b, ")">>
Unreach == <<"OSError", ":", "SP", "EHOSTUNREACH">>
Dns == <<"OSError", ":", "SP", "-202">>
IpStatus(n) ==
    <<"ip", ":", "(">> \o
    (IF n >= 1 THEN <<"Q", "addr", "Q">> ELSE <<>>) \o
    (IF n >= 2 THEN <<",", "SP", "Q", "mask", "Q">> ELSE <<>>) \o
    (IF n >= 3 THEN <<",", "SP", "Q", "gw", "Q">> ELSE <<>>) \o
    (IF n >= 4 THEN <<",", "SP", "Q", "dns", "Q">> ELSE <<>>) \o <<")">>
SsidEcho(v) == <<"ssid", ":", v>>
ScanOf(n) ==
    <<"[", "(">> \o <<"Q", "net", "Q", ",", "SP", "b", ",", "SP", "2">> \o
    (IF n = 6 THEN <<",", "SP", "0", ",", "SP", "4", ",", "SP", "0">> ELSE <<>>) \o
    <<")", ",", "SP", "(", "x", ")", "]">>

LineKinds ==
    {<<>>, Echo, PingHdr, PingCut, ReplyTo("2"), ReplyTo("x"), Stats("4", "2"),
     Stats("0", "0"), <<"x", "SP", "x">>, Unreach, Dns, IpStatus(4), IpStatus(3),
     SsidEcho("net"), <<"ssid">>, ScanOf(6), ScanOf(3)}

\* whole ping runs: the echo, the header, three replies, the counts, the prompt
PingRuns ==
    {<<Echo, PingHdr, r1, r2, <<>>, st, <<>>>> :
        r1 \in {ReplyTo("2"), ReplyTo("x")},
        r2 \in {ReplyTo("4"), ReplyTo("x"), <<>>},
        st \in {Stats("4", "2"), Stats("0", "0"), Stats("x", "4"), <<"x", "SP", "x">>, <<>>}}

Responses ==
    UNION {[1..n -> LineKinds] : n \in 0..MaxLines} \cup PingRuns

\* esp_wifi_serial.py:225-256: a response is decoded as a ping result
DecodePing ==
    /\ dec_out.fn = "none"
    /\ dec_out' = [fn |-> "ping"] @@ analyse_ping(dec_in)
    /\ UNCHANGED <<dec_in, sigVars, recv_end, waitVars, smashVars, chanVars, wrapVars, jobVars,
                   instVars>>

\* esp_wifi_serial.py:180-182, 204-205: a line with "ip:" of a status
\* response is decoded
DecodeIpStatus(i) ==
    /\ dec_out.fn = "none"
    /\ i \in 1..Len(dec_in) /\ Contains(dec_in[i], <<"ip", ":">>)
    /\ dec_out' = [fn |-> "ip_status"] @@ analyse_ip_status(dec_in[i])
    /\ UNCHANGED <<dec_in, sigVars, recv_end, waitVars, smashVars, chanVars, wrapVars, jobVars,
                   instVars>>

\* esp_wifi_serial.py:33-51: a line is decoded as a scan result
DecodeScan(i) ==
    /\ dec_out.fn = "none"
    /\ i \in 1..Len(dec_in)
    /\ dec_out' = [fn |-> "scan"] @@ analyse_data_scan(dec_in[i])
    /\ UNCHANGED <<dec_in, sigVars, recv_end, waitVars, smashVars, chanVars, wrapVars, jobVars,
                   instVars>>

\* esp_wifi_serial.py:148-154: connect() checks the echo of the ssid it set
DecodeEcho(value) ==
    /\ dec_out.fn = "none"
    /\ dec_out' = [fn |-> "echo"] @@ echo_check(dec_in, <<value>>)
    /\ UNCHANGED <<dec_in, sigVars, recv_end, waitVars, smashVars, chanVars, wrapVars, jobVars,
                   instVars>>

InitDecode ==
    /\ InitTaEsp /\ InitWrapVars /\ InitNoJob /\ InitNoSignal /\ recv_end = NoEnd
    /\ InitNoWait /\ InitNoSmash /\ InitClassSignals
    /\ dec_in \in Responses
    /\ dec_out = NotDecoded

NextDecode ==
    \/ DecodePing
    \/ \E i \in 1..(MaxLines + 4) : DecodeIpStatus(i)
    \/ \E i \in 1..(MaxLines + 4) : DecodeScan(i)
    \/ \E value \in {"net", "other"} : DecodeEcho(value)

SpecDecode == InitDecode /\ [][NextDecode]_vars

\* C18: the ping decoder returns ("error", "dns") for every response in
\* which some line contains "OSError: -202", whatever else it contains.
C18_DnsErrorWhateverElse ==
    (/\ dec_out.fn = "ping"
     /\ \E i \in 1..Len(dec_in) : Contains(dec_in[i], <<"OSError", ":", "SP", "-202">>))
        => dec_out.kind = "returns" /\ dec_out.tag = "error dns"

\* C19: no response decoder raises: for every list of lines each decoder
\* returns a value.
C19_DecodersNeverRaise == dec_out.fn # "none" => dec_out.kind = "returns"

\* the text received since the last line feed: the unterminated data
Unterminated(raw) ==
    LET parts == Split(Remove(DecodeReplace(raw), "CR"), "LF")
    IN  parts[Len(parts)]

\* C20: when unterminated data overflows the receive buffer, what remains
\* after the truncation is exactly the last MAX_BUFFER characters of the
\* data received so far: once a receive of the Uploader has returned, the
\* buffer is the unterminated text received, cut to its last MAX_BUFFER
\* characters.
C20_TruncationKeepsNewest ==
    (IsUploader /\ pc # "recv") =>
        rbuffer = LastN(Unterminated(received), MAX_BUFFER)

\* a receive has returned with more unterminated text received than the
\* buffer holds, and the buffer is full
C20_Witness ==
    /\ IsUploader /\ pc = "idle" /\ result.op = "recv" /\ result.out = "ok"
    /\ Len(Unterminated(received)) > MAX_BUFFER
    /\ Len(rbuffer) = MAX_BUFFER

\* the directory-create commands written for directory d
CreatesOf(d) == {i \in 1..Len(sent) : sent[i].op = "mkdir" /\ sent[i].path = d /\ sent[i].ok}

\* C21: for every remote directory that holds a transferred file upload()
\* sends exactly one directory-create command, however many files the
\* directory holds, and dirs_created grows by one for that directory: no
\* directory has two create commands, and dirs_created counts the
\* directories created.
C21_OneCreatePerDirectory ==
    /\ \A d \in TreeDirs : Cardinality(CreatesOf(d)) <= 1
    /\ dirs_created = Cardinality({d \in TreeDirs : CreatesOf(d) # {}})

\* REPLace.py:339-346 run by the device: the directories that exist on the
\* device after the first n writes. It starts with its root alone; the
\* create command lists the parent, which fails when the parent is missing,
\* and makes the directory otherwise.
RECURSIVE DeviceDirs(_)
DeviceDirs(n) ==
    IF n = 0 THEN {Root}
    ELSE LET before == DeviceDirs(n - 1)
             c == sent[n]
         IN  IF c.op = "mkdir" /\ c.ok /\ DirOf(c.path) \in before
             THEN before \cup {c.path}
             ELSE before

\* C22: on a device where listing or creating inside a missing directory
\* fails, the parent remote directory of every file exists on the device
\* before the file's open command is sent, for trees of any depth: when
\* every write so far went through, an open command finds its directory on
\* the device.
C22_ParentExistsBeforeOpen ==
    \A i \in 1..Len(sent) :
        (sent[i].op = "open" /\ \A j \in 1..i : sent[j].ok) =>
            DirOf(sent[i].path) \in DeviceDirs(i - 1)

\* the writes of commands, which send() makes; the Ctrl-C of _connect and
\* _disconnect is no command
CommandWrites == {i \in 1..Len(sent) : sent[i].op # "interrupt" /\ sent[i].ok}

\* C23: upload is strictly sequential: every command written to the
\* transport has had its settle delay and its drain before anything else is
\* written, so no two commands are written without a drain in between; the
\* Ctrl-C of the connect is drained too before the first command.
C23_WritesAreDrained ==
    /\ \A i \in CommandWrites : sent[i].settled /\ sent[i].drained
    /\ \A i \in 1..Len(sent) : sent[i].ok => sent[i].drained

\* two chunks of one file have been written, one after the other
C23_Witness ==
    \E i \in CommandWrites :
        /\ i + 1 \in CommandWrites
        /\ sent[i].op = "write" /\ sent[i + 1].op = "write"
        /\ sent[i].drained

\* the directory-create commands whose write failed
FailedCreates == {i \in 1..Len(sent) : sent[i].op = "mkdir" /\ ~sent[i].ok}

\* the directory-create commands that went through
SentCreates == {i \in 1..Len(sent) : sent[i].op = "mkdir" /\ sent[i].ok}

\* C24: a failure while sending a directory-create command does not abort
\* the job: the step in which the write fails leaves dirs_created and the
\* result of upload() alone and hands over to the next turn of the
\* directory loop or to the first file of the directory, and dirs_created
\* counts the creates that went through only.
C24_CreateFailureNotFatal ==
    /\ [][(job = "mkdir" /\ Len(sent') = Len(sent) + 1 /\ ~sent'[Len(sent')].ok) =>
             /\ job' \in {"mkdir", "file"}
             /\ dirs_created' = dirs_created
             /\ upload_ret' = upload_ret]_vars
    /\ [](~dry_run => dirs_created = Cardinality(SentCreates))

\* the create of a directory failed, the open of a file was sent after it,
\* and upload() has returned True
C24_Witness ==
    /\ Returned /\ upload_ret = "True"
    /\ \E i \in FailedCreates : \E j \in (i + 1)..Len(sent) :
           sent[j].op = "open" /\ sent[j].ok

(***************************************************************************)
(* PySignal (serial_connection_wrapper.py:12-34) on its own: callbacks are *)
(* connected and disconnected, by any thread or by a callback, while emit  *)
(* walks the list.                                                         *)
(***************************************************************************)
NumCallbacks == 3
MaxEmits == 2

Callbacks == 1..NumCallbacks

\* list.remove(x): the list without its first x
RemoveFirst(seq, x) ==
    LET i == CHOOSE k \in 1..Len(seq) : seq[k] = x /\ \A j \in 1..(k - 1) : seq[j] # x
    IN  SubSeq(seq, 1, i - 1) \o SubSeq(seq, i + 1, Len(seq))

InSlots(cb) == \E k \in 1..Len(slots) : slots[k] = cb

\* serial_connection_wrapper.py:18-21: PySignal.connect
SignalConnect(cb) ==
    /\ ~InSlots(cb)
    /\ slots' = Append(slots, cb)
    /\ UNCHANGED <<emit_i, delivered, stayed, emits>>
    /\ UNCHANGED <<decVars, recv_end, waitVars, smashVars, chanVars, wrapVars, jobVars,
                   instVars>>

\* serial_connection_wrapper.py:23-26: PySignal.disconnect
SignalDisconnect(cb) ==
    /\ InSlots(cb)
    /\ slots' = RemoveFirst(slots, cb)
    /\ stayed' = IF emit_i > 0 THEN stayed \ {cb} ELSE stayed
    /\ UNCHANGED <<emit_i, delivered, emits>>
    /\ UNCHANGED <<decVars, recv_end, waitVars, smashVars, chanVars, wrapVars, jobVars,
                   instVars>>

\* serial_connection_wrapper.py:30: emit makes the iterator of self.slots
EmitBegin ==
    /\ emit_i = 0 /\ emits < MaxEmits
    /\ emit_i' = 1
    /\ emits' = emits + 1
    /\ delivered' = [cb \in Callbacks |-> 0]
    /\ stayed' = {cb \in Callbacks : InSlots(cb)}
    /\ UNCHANGED slots
    /\ UNCHANGED <<decVars, recv_end, waitVars, smashVars, chanVars, wrapVars, jobVars,
                   instVars>>

\* serial_connection_wrapper.py:30-34: the iterator hands out the callback
\* at its position and moves on; the callback runs, and what it raises is
\* logged
EmitCall ==
    /\ emit_i > 0 /\ emit_i <= Len(slots)
    /\ delivered' = [delivered EXCEPT ![slots[emit_i]] = @ + 1]
    /\ emit_i' = emit_i + 1
    /\ UNCHANGED <<slots, stayed, emits>>
    /\ UNCHANGED <<decVars, recv_end, waitVars, smashVars, chanVars, wrapVars, jobVars,
                   instVars>>

\* serial_connection_wrapper.py:30-34, 23-26: the callback that runs
\* disconnects itself
EmitCallDisconnects ==
    /\ emit_i > 0 /\ emit_i <= Len(slots)
    /\ delivered' = [delivered EXCEPT ![slots[emit_i]] = @ + 1]
    /\ emit_i' = emit_i + 1
    /\ slots' = RemoveFirst(slots, slots[emit_i])
    /\ stayed' = stayed \ {slots[emit_i]}
    /\ UNCHANGED emits
    /\ UNCHANGED <<decVars, recv_end, waitVars, smashVars, chanVars, wrapVars, jobVars,
                   instVars>>

\* serial_connection_wrapper.py:30: the iterator is past the end of the
\* list: emit returns
EmitReturn ==
    /\ emit_i > Len(slots)
    /\ emit_i' = 0
    /\ UNCHANGED <<slots, delivered, stayed, emits>>
    /\ UNCHANGED <<decVars, recv_end, waitVars, smashVars, chanVars, wrapVars, jobVars,
                   instVars>>

\* a wrapper that is not connected, and its signal
InitSignal == InitWrapper

NextSignal ==
    \/ \E cb \in Callbacks : SignalConnect(cb)
    \/ \E cb \in Callbacks : SignalDisconnect(cb)
    \/ EmitBegin
    \/ EmitCall
    \/ EmitCallDisconnects
    \/ EmitReturn

SpecSignal == InitSignal /\ [][NextSignal]_vars

\* C25: a callback that stays connected for the whole duration of an emit
\* is called exactly once by it, whatever is connected or disconnected
\* while the emit runs.
C25_StayingObserverCalledOnce ==
    (emit_i = 0 /\ emits > 0) => \A cb \in stayed : delivered[cb] = 1

(***************************************************************************)
(* The read loop of Uploader.recv (REPLace.py:192-203) with its three ways *)
(* out kept apart. The deadline is counted in reads, as above.             *)
(***************************************************************************)
\* the loop is left; what is recorded is why, and after how many reads
\* that returned data
PollLeaves(cause) ==
    /\ URecvLeave
    /\ recv_end' = [cause |-> cause, reads |-> reads]
    /\ UNCHANGED <<decVars, sigVars, waitVars, smashVars, cfgVars, wrapVars, jobVars,
                   instVars>>

\* REPLace.py:195-196, 199-200: read() returns b'' and the loop breaks
PollEmptyRead == connection = "open" /\ reads < MaxReads /\ PollLeaves("empty")

\* REPLace.py:201-203: read() raises; the warning is logged and the loop breaks
PollReadRaises == reads < MaxReads /\ PollLeaves("error")

\* REPLace.py:193: the deadline has passed
PollDeadline == reads >= MaxReads /\ PollLeaves("deadline")

InitPoll == InitUploaderChannel /\ ~dry_run /\ InitWrapVars /\ InitNoJob /\ InitNoUnits

NextPoll ==
    \/ UConnectOk
    \/ \E line \in SendLines : USendOk(line)
    \/ URecvCall
    \/ \E data \in Chunks : URecvRead(data)
    \/ PollEmptyRead
    \/ PollReadRaises
    \/ PollDeadline
    \/ UDisconnectWrite
    \/ UDisconnectClose

SpecPoll == InitPoll /\ [][NextPoll]_vars

\* C26: a polling receive does not stop at an empty read that comes before
\* any data of the call: when its loop has ended at an empty read, at least
\* one read of the call had returned data.
C26_EmptyReadEndsOnlyAfterData ==
    recv_end.cause = "empty" => recv_end.reads > 0

(***************************************************************************)
(* The wait of TaEspClient.connect for the device (esp_wifi_serial.py:     *)
(* 161-173). The text is a sequence of tokens; the completion marker       *)
(* "connect:" is the token "connect" followed by ":". Time is counted in   *)
(* the sleeps of the loop.                                                 *)
(***************************************************************************)
MaxWait == 2
MaxBatch == 2
MaxText == 4

WaitTokens == {"connect", ":", "5", "LF"}
Marker == <<"connect", ":">>

\* what the device has sent between two returns of recv()
Batches == UNION {[1..n -> WaitTokens] : n \in 0..MaxBatch}

\* sep.join(lines)
RECURSIVE Join(_, _)
Join(lines, sep) ==
    IF lines = <<>> THEN <<>>
    ELSE IF Len(lines) = 1 THEN lines[1]
    ELSE lines[1] \o <<sep>> \o Join(Tail(lines), sep)

\* esp_wifi_serial.py:166, 171: combined_data
CombinedData(lines) == Join(lines, "TAB")

\* esp_wifi_serial.py:162-166: b.connect() is sent; send returns the lines
\* received after five seconds
ConnectSendsConnect(batch) ==
    /\ wait_pc = "idle"
    /\ wait_pc' = "wait"
    /\ wait_text' = batch
    /\ wait_data' = TaRecvLines(batch)
    /\ wait_time' = 0
    /\ UNCHANGED <<decVars, sigVars, recv_end, smashVars, chanVars, wrapVars, jobVars,
                   instVars>>

\* esp_wifi_serial.py:168-171: the marker is not in combined_data and the
\* time is not over: sleep, recv(), and combined_data is made of the lines
\* recv returned
ConnectWaits(batch) ==
    /\ wait_pc = "wait"
    /\ ~Contains(CombinedData(wait_data), Marker)
    /\ wait_time < MaxWait
    /\ Len(wait_text) + Len(batch) <= MaxText
    /\ wait_time' = wait_time + 1
    /\ wait_text' = wait_text \o batch
    /\ wait_data' = TaRecvLines(batch)
    /\ UNCHANGED wait_pc
    /\ UNCHANGED <<decVars, sigVars, recv_end, smashVars, chanVars, wrapVars, jobVars,
                   instVars>>

\* esp_wifi_serial.py:168, 173: the loop is over; connect goes on to read
\* the connect time, or straight to its return
ConnectWaitEnds ==
    /\ wait_pc = "wait"
    /\ Contains(CombinedData(wait_data), Marker) \/ wait_time >= MaxWait
    /\ wait_pc' = IF Contains(CombinedData(wait_data), Marker) THEN "found" ELSE "not found"
    /\ UNCHANGED <<wait_text, wait_data, wait_time>>
    /\ UNCHANGED <<decVars, sigVars, recv_end, smashVars, chanVars, wrapVars, jobVars,
                   instVars>>

InitWait == InitTaEsp /\ InitWrapVars /\ InitNoJob /\ InitNoUnits

NextWait ==
    \/ \E batch \in Batches : ConnectSendsConnect(batch)
    \/ \E batch \in Batches : ConnectWaits(batch)
    \/ ConnectWaitEnds

SpecWait == InitWait /\ [][NextWait]_vars

\* C27: the wait loop of connect ends when the timeout has elapsed at the
\* latest, and when it has ended the marker counts as detected whenever the
\* text received since the connect command contains it, however the text
\* was split over the receive calls.
C27_MarkerDetectedHoweverSplit ==
    /\ wait_time <= MaxWait
    /\ wait_pc \in {"found", "not found"} =>
           (Contains(wait_text, Marker) => wait_pc = "found")

(***************************************************************************)
(* Uploader._smash_file (REPLace.py:224-256) as a function on the lines of *)
(* a file. A line is the sequence of its characters without the line feed. *)
(***************************************************************************)
MaxFileLines == 2
MaxLineLen == 3

SmashChars == {"x", "#", "SP"}
SmashLevels == 0..3

SourceLines == UNION {[1..n -> SmashChars] : n \in 0..MaxLineLen}
SourceFiles == UNION {[1..n -> SourceLines] : n \in 0..MaxFileLines}

\* str.rsplit(c, 1)[0]: what stands before the last c
BeforeLast(s, c) ==
    IF \E i \in 1..Len(s) : s[i] = c
    THEN LET i == CHOOSE k \in 1..Len(s) : s[k] = c /\ \A j \in (k + 1)..Len(s) : s[j] # c
         IN  SubSeq(s, 1, i - 1)
    ELSE s

\* REPLace.py:235-252: what one line of the input puts into the output
SmashLine(line, level) ==
    LET line_stripped == Strip(line)
    IN  IF line_stripped = <<>>
        THEN IF level < 1 THEN <<(<<>>)>> ELSE <<>>
        ELSE IF StartsWith(line_stripped, <<"#">>) /\ level >= 2
        THEN <<>>
        ELSE IF (\E i \in 1..Len(line_stripped) : line_stripped[i] = "#") /\ level >= 3
        THEN <<RStrip(BeforeLast(RStrip(line), "#"))>>
        ELSE <<RStrip(line)>>

\* REPLace.py:232-252: the lines of the output file
RECURSIVE SmashLines(_, _)
SmashLines(lines, level) ==
    IF lines = <<>> THEN <<>>
    ELSE SmashLine(Head(lines), level) \o SmashLines(Tail(lines), level)

\* REPLace.py:224-256: _smash_file on a source file
SmashSource ==
    /\ smashed = <<>>
    /\ smashed' = <<SmashLines(smash_src, smash_level)>>
    /\ UNCHANGED <<smash_level, smash_src>>
    /\ UNCHANGED <<decVars, sigVars, recv_end, waitVars, chanVars, wrapVars, jobVars,
                   instVars>>

\* REPLace.py:224-256: _smash_file on its own output
SmashAgain ==
    /\ Len(smashed) = 1
    /\ smashed' = Append(smashed, SmashLines(smashed[1], smash_level))
    /\ UNCHANGED <<smash_level, smash_src>>
    /\ UNCHANGED <<decVars, sigVars, recv_end, waitVars, chanVars, wrapVars, jobVars,
                   instVars>>

InitSmash ==
    /\ InitUploaderChannel /\ InitWrapVars /\ InitNoJob
    /\ InitNoDecode /\ InitNoSignal /\ recv_end = NoEnd /\ InitNoWait
    /\ InitClassSignals
    /\ smash_level \in SmashLevels
    /\ smash_src \in SourceFiles
    /\ smashed = <<>>

NextSmash == SmashSource \/ SmashAgain

SpecSmash == InitSmash /\ [][NextSmash]_vars

\* C28: smashing is idempotent at the levels 1, 2 and 3: the output of a
\* smash, smashed again at the same level, is the same content.
C28_SmashIdempotent ==
    (smash_level >= 1 /\ Len(smashed) = 2) => smashed[2] = smashed[1]

(***************************************************************************)
(* The locks of SerialConnectionWrapper: send() and flush() on the         *)
(* caller's thread and send() called by an observer on a worker thread     *)
(* take send_lock, the worker takes recv_lock around its read.             *)
(***************************************************************************)
\* a `with lock:` block that is left with the lock still held
WithExitKeeps(t) == t

\* serial_connection_wrapper.py:188-198, 273-276: leaving a `with lock:`
\* block, by its end or by an exception, releases the lock
WithExit(t) == NoThread

\* serial_connection_wrapper.py:270-273: flush() takes send_lock
WFlushAcquire ==
    /\ IsWrapper /\ Call
    /\ send_lock = NoThread
    /\ send_lock' = MainThread
    /\ pc' = "flush"
    /\ result' = Done("flush", "running", 0, 0)
    /\ UNCHANGED <<connection, received, surfaced, lifecycle, connected_flag,
                   stop_signal, recv_thread, workerVars>>
    /\ UNCHANGED <<unitVars, cfgVars, pollVars, jobVars>>

\* serial_connection_wrapper.py:274-279: the buffers are flushed, or the
\* port raises and the warning is logged; flush returns None
WFlushDone ==
    /\ IsWrapper /\ pc = "flush"
    /\ send_lock' = WithExit(MainThread)
    /\ pc' = "idle"
    /\ result' = [result EXCEPT !.out = "ok"]
    /\ UNCHANGED <<connection, received, surfaced, calls, lifecycle, connected_flag,
                   stop_signal, recv_thread, workerVars>>
    /\ UNCHANGED <<unitVars, cfgVars, pollVars, jobVars>>

\* serial_connection_wrapper.py:183-188: an observer calls send() on the
\* worker thread: without a connection it returns False, else it goes for
\* send_lock
WorkerCbSendCall(w) ==
    /\ IsWrapper /\ wpc[w] = "cb"
    /\ IF connected_flag /\ connection # "None"
       THEN wpc' = [wpc EXCEPT ![w] = "cb_lock"] /\ UNCHANGED cb_result
       ELSE /\ wpc' = [wpc EXCEPT ![w] = "cb_after"]
            /\ cb_result' = [op |-> "send", out |-> "NotConnected"]
    /\ UNCHANGED <<connection, received, surfaced, stop_signal, mainVars, wlines,
                   cb_target, recv_lock>>
    /\ UNCHANGED <<unitVars, cfgVars, pollVars, jobVars, obsVars, read_errors>>

\* serial_connection_wrapper.py:188: the observer's send() gets send_lock
WorkerCbSendAcquire(w) ==
    /\ IsWrapper /\ wpc[w] = "cb_lock"
    /\ send_lock = NoThread
    /\ send_lock' = w
    /\ wpc' = [wpc EXCEPT ![w] = "cb_send"]
    /\ UNCHANGED <<connection, received, surfaced, stop_signal, pc, calls, lifecycle,
                   result, connected_flag, recv_thread, wlines, cb_target, recv_lock,
                   cb_result>>
    /\ UNCHANGED <<unitVars, cfgVars, pollVars, jobVars, obsVars, read_errors>>

\* serial_connection_wrapper.py:189-213: the observer's send() writes and
\* flushes, or the port raises; the `with` block is left either way
WorkerCbSendDone(w, ok) ==
    /\ IsWrapper /\ wpc[w] = "cb_send"
    /\ ok => connection = "open"
    /\ send_lock' = WithExit(w)
    /\ wpc' = [wpc EXCEPT ![w] = "cb_after"]
    /\ cb_result' = [op |-> "send", out |-> IF ok THEN "True" ELSE "SendFailed"]
    /\ UNCHANGED <<connection, received, surfaced, stop_signal, pc, calls, lifecycle,
                   result, connected_flag, recv_thread, wlines, cb_target, recv_lock>>
    /\ UNCHANGED <<unitVars, cfgVars, pollVars, jobVars, obsVars, read_errors>>

\* what the device sends while the locks are looked at
LockChunks == {<<>>, <<"a", "LF">>}

NextLocks ==
    \/ WConnectOpenFails
    \/ WConnectOpen
    \/ WConnectResetFails
    \/ WConnectFinish
    \/ WDisconnectBegin
    \/ WDisconnectJoined
    \/ WDisconnectClose
    \/ \E exc \in ExcKinds : WDisconnectCloseFails(exc)
    \/ WSendNotConnected
    \/ WSendAcquire
    \/ WSendWrite(Cmd(<<"a">>))
    \/ WSendWriteFails
    \/ WFlushAcquire
    \/ WFlushDone
    \/ \E w \in Workers : WorkerStop(w)
    \/ \E w \in Workers : WorkerEnter(w)
    \/ \E w \in Workers : \E data \in LockChunks : WorkerRead(w, data)
    \/ \E w \in Workers : \E exc \in ExcKinds : WorkerReadFails(w, exc)
    \/ \E w \in Workers : WorkerDeliver(w)
    \/ \E w \in Workers : WorkerCallbackReturn(w)
    \/ \E w \in Workers : \E exc \in ExcKinds : WorkerCallbackRaises(w, exc)
    \/ \E w \in Workers : WorkerCbDisconnect(w)
    \/ \E w \in Workers : WorkerCbJoined(w)
    \/ \E w \in Workers : WorkerCbClose(w)
    \/ \E w \in Workers : \E exc \in ExcKinds : WorkerCbCloseFails(w, exc)
    \/ \E w \in Workers : WorkerCbSendCall(w)
    \/ \E w \in Workers : WorkerCbSendAcquire(w)
    \/ \E w \in Workers : \E ok \in BOOLEAN : WorkerCbSendDone(w, ok)

SpecLocks == InitWrapper /\ [][NextLocks]_vars

\* the threads of the wrapper
Threads == {MainThread} \cup Workers

\* thread t is inside a `with send_lock:` block
InSendBlock(t) ==
    IF t = MainThread THEN pc \in {"send", "flush"} ELSE wpc[t] = "cb_send"

\* thread t waits for a lock
WaitsForLock(t) == t \in Workers /\ wpc[t] = "cb_lock"

\* C29: send(), flush(), disconnect(), observers that call send() and the
\* receive worker cannot deadlock: no thread holds send_lock and recv_lock
\* together, a lock is held only by a thread that is inside the block
\* that took it, that thread holds no other lock, waits for none, and can
\* leave the block; and a thread that waits for a lock holds none.
C29_LocksCannotDeadlock ==
    /\ \A t \in Threads : ~(send_lock = t /\ recv_lock = t)
    /\ send_lock # NoThread => InSendBlock(send_lock) /\ ~WaitsForLock(send_lock)
    /\ recv_lock # NoThread => wpc[recv_lock] = "read"
    /\ send_lock = MainThread =>
           ENABLED (WSendWriteFails \/ WFlushDone)
    /\ \A w \in Workers :
           /\ send_lock = w => ENABLED WorkerCbSendDone(w, FALSE)
           /\ recv_lock = w => ENABLED (\E exc \in ExcKinds : WorkerReadFails(w, exc))
           /\ WaitsForLock(w) => (recv_lock # w /\ send_lock # w)

\* an observer's send() waits for send_lock while the caller's thread holds
\* it, and another worker is in its read with recv_lock
C29_Witness ==
    /\ send_lock = MainThread
    /\ \E w \in Workers : WaitsForLock(w)
    /\ recv_lock \in Workers

\* a connect() or disconnect() is under way on some thread
Reconnecting ==
    \/ pc # "idle"
    \/ \E w \in Workers : wpc[w] \in {"cb_join", "cb_close"}

\* C30: whenever is_connected() is true on a streaming channel, and no
\* connect or disconnect is under way, a receive worker of the channel is
\* alive; after the worker has left its loop on a read error the channel
\* does not report itself connected.
C30_ConnectedHasLiveWorker ==
    (is_connected /\ ~Reconnecting) => \E w \in Workers : Alive(w)

(***************************************************************************)
(* The teardown of a streaming session: disconnect() on the caller's       *)
(* thread against a worker that has a chunk of two lines to deliver.       *)
(***************************************************************************)
MaxTeardownStream == 3

\* a chunk that holds two lines
TwoLines == <<"a", "LF", "a">>

NextTeardown ==
    \/ WConnectOpen
    \/ WConnectFinish
    \/ WDisconnectBegin
    \/ WDisconnectJoined
    \/ WDisconnectClose
    \/ \E w \in Workers : WorkerStop(w)
    \/ \E w \in Workers : WorkerEnter(w)
    \/ \E w \in Workers : \E data \in {<<>>, TwoLines} :
           WorkerReadWithin(w, data, MaxTeardownStream)
    \/ \E w \in Workers : WorkerDeliver(w)
    \/ \E w \in Workers : WorkerCallbackReturn(w)

SpecTeardown == InitWrapper /\ [][NextTeardown]_vars

\* disconnect() has emitted disconnected and returned, and nothing was
\* called since
DisconnectReturned ==
    pc = "idle" /\ result.op = "disconnect" /\ result.out = "ok"

\* C31: once disconnect() has emitted disconnected and returned, no
\* recv_data event is dispatched any more: no line is emitted and no
\* observer is called.
C31_NoEventAfterDisconnect ==
    [][DisconnectReturned => (surfaced' = surfaced /\ got' = got)]_vars

(***************************************************************************)
(* Several SerialConnectionWrapper instances open at the same time and the *)
(* signals their attributes name (serial_connection_wrapper.py:52-56). An  *)
(* observer is named by the instance it was connected through.             *)
(***************************************************************************)
NumInstances == 2

Instances == 1..NumInstances

\* serial_connection_wrapper.py:52-56, 69-93: instance.recv_data and the
\* like: __init__ assigns no signal, so the attribute is found on the
\* class, whichever the instance
SignalOf(instance, name) == name

IsConnectedTo(sig, obs) == \E k \in 1..Len(class_slots[sig]) : class_slots[sig][k] = obs

\* serial_connection_wrapper.py:18-21: instance.<name>.connect(callback)
InstanceConnect(i, name) ==
    /\ ~IsConnectedTo(SignalOf(i, name), i)
    /\ class_slots' = [class_slots EXCEPT ![SignalOf(i, name)] = Append(@, i)]
    /\ UNCHANGED heard
    /\ UNCHANGED <<decVars, sigVars, recv_end, waitVars, smashVars, chanVars,
                   wrapVars, jobVars>>

\* serial_connection_wrapper.py:23-26: instance.<name>.disconnect(callback)
InstanceDisconnect(i, name) ==
    /\ IsConnectedTo(SignalOf(i, name), i)
    /\ class_slots' = [class_slots EXCEPT ![SignalOf(i, name)] = RemoveFirst(@, i)]
    /\ UNCHANGED heard
    /\ UNCHANGED <<decVars, sigVars, recv_end, waitVars, smashVars, chanVars,
                   wrapVars, jobVars>>

\* serial_connection_wrapper.py:28-34, 207, 240, 249: instance j emits an
\* event, self.<name>.emit(...): every slot of the signal is called
InstanceEmits(j, name) ==
    /\ heard' = heard \cup
           {[observer |-> class_slots[SignalOf(j, name)][k], from |-> j, signal |-> name] :
                k \in 1..Len(class_slots[SignalOf(j, name)])}
    /\ UNCHANGED class_slots
    /\ UNCHANGED <<decVars, sigVars, recv_end, waitVars, smashVars, chanVars,
                   wrapVars, jobVars>>

NextInstances ==
    \/ \E i \in Instances : \E name \in SignalNames : InstanceConnect(i, name)
    \/ \E i \in Instances : \E name \in SignalNames : InstanceDisconnect(i, name)
    \/ \E j \in Instances : \E name \in SignalNames : InstanceEmits(j, name)

SpecInstances == InitWrapper /\ [][NextInstances]_vars

\* C32: observers are scoped to one channel: an observer connected to a
\* signal of one instance is called with the events of that instance only.
C32_ObserversScopedToInstance ==
    \A h \in heard : h.observer = h.from

====
